---- MODULE Spec2Model ----
(***************************************************************************)
(* ASA24 multi-subject analyzer: the record store (ASA24Analyzer.data),    *)
(* the subject index (ASA24Analyzer.subjects), the five summary projectors *)
(* and the HEI-2015 scoring engine, as state machine over one analyzer     *)
(* instance built on one data directory.                                   *)
(*                                                                         *)
(* Numbers are exact rationals [n, d] (d > 0) extended with the IEEE       *)
(* specials pandas produces instead of raising: d = 0 encodes +inf (n = 1),*)
(* -inf (n = -1) and NaN (n = 0).  Rounding of binary floating point (at   *)
(* most one unit in the last place) is not modelled.                       *)
(* Strings that the code takes apart (file names) are character tuples;    *)
(* strings that are only compared or concatenated are TLA+ strings.        *)
(***************************************************************************)
EXTENDS Integers, Sequences, FiniteSets, TLC

VARIABLES dir, data, subjects, loaded, ret, calls, ui

vars == <<dir, data, subjects, loaded, ret, calls, ui>>

-----------------------------------------------------------------------------
(* Bounds of the model                                                     *)

\* longest table (rows) a varied file of the directory holds
MaxRows == 2

-----------------------------------------------------------------------------
(* Extended rational arithmetic (pandas / numpy float64 semantics)         *)

Abs(x) == IF x < 0 THEN -x ELSE x

Sign(x) == IF x < 0 THEN -1 ELSE IF x > 0 THEN 1 ELSE 0

RECURSIVE GCD(_, _)
GCD(a, b) == IF b = 0 THEN a ELSE GCD(b, a % b)

\* the rational n/d in lowest terms, d > 0
Rat(n, d) ==
    LET g == GCD(Abs(n), d)
    IN  [n |-> n \div g, d |-> d \div g]

Int2Q(i) == [n |-> i, d |-> 1]

NaN == [n |-> 0, d |-> 0]
PosInf == [n |-> 1, d |-> 0]
NegInf == [n |-> -1, d |-> 0]

IsNaN(a) == a.d = 0 /\ a.n = 0
IsInf(a) == a.d = 0 /\ a.n # 0
IsFinite(a) == a.d > 0

\* a < b ; false when either is NaN
QLt(a, b) ==
    IF IsNaN(a) \/ IsNaN(b) THEN FALSE
    ELSE IF IsInf(a) /\ IsInf(b) THEN a.n < b.n
    ELSE IF IsInf(a) THEN a.n < 0
    ELSE IF IsInf(b) THEN b.n > 0
    ELSE a.n * b.d < b.n * a.d

QLe(a, b) == ~IsNaN(a) /\ ~IsNaN(b) /\ ~QLt(b, a)

QNeg(a) == [n |-> -a.n, d |-> a.d]

QAdd(a, b) ==
    IF IsNaN(a) \/ IsNaN(b) THEN NaN
    ELSE IF IsInf(a) /\ IsInf(b) THEN (IF a.n = b.n THEN a ELSE NaN)
    ELSE IF IsInf(a) THEN a
    ELSE IF IsInf(b) THEN b
    ELSE Rat(a.n * b.d + b.n * a.d, a.d * b.d)

QSub(a, b) == QAdd(a, QNeg(b))

QMul(a, b) ==
    IF IsNaN(a) \/ IsNaN(b) THEN NaN
    ELSE IF IsInf(a) \/ IsInf(b)
         THEN (IF a.n = 0 \/ b.n = 0 THEN NaN
               ELSE [n |-> Sign(a.n) * Sign(b.n), d |-> 0])
    ELSE Rat(a.n * b.n, a.d * b.d)

\* true division of two float columns: x/0 is +-inf, 0/0 is NaN, never raises
QDiv(a, b) ==
    IF IsNaN(a) \/ IsNaN(b) THEN NaN
    ELSE IF IsInf(a) THEN (IF IsInf(b) THEN NaN
                           ELSE [n |-> a.n * (IF b.n < 0 THEN -1 ELSE 1), d |-> 0])
    ELSE IF IsInf(b) THEN Int2Q(0)
    ELSE IF b.n = 0 THEN (IF a.n = 0 THEN NaN ELSE [n |-> Sign(a.n), d |-> 0])
    ELSE Rat(a.n * b.d * Sign(b.n), a.d * Abs(b.n))

\* Series.clip(lower, upper): NaN stays NaN
Clip(x, lo, hi) ==
    IF IsNaN(x) THEN NaN
    ELSE IF QLt(x, lo) THEN lo
    ELSE IF QLt(hi, x) THEN hi
    ELSE x

-----------------------------------------------------------------------------
(* Strings                                                                 *)

Digit(k) ==
    CASE k = 0 -> "0" [] k = 1 -> "1" [] k = 2 -> "2" [] k = 3 -> "3"
      [] k = 4 -> "4" [] k = 5 -> "5" [] k = 6 -> "6" [] k = 7 -> "7"
      [] k = 8 -> "8" [] k = 9 -> "9"

\* str() of a non-negative int: decimal digits, most significant first
RECURSIVE NatStr(_)
NatStr(k) == IF k < 10 THEN Digit(k) ELSE NatStr(k \div 10) \o Digit(k % 10)

\* astype(str) on an integer column
IntStr(i) == IF i < 0 THEN "-" \o NatStr(-i) ELSE NatStr(i)

-----------------------------------------------------------------------------
(* Sequence helpers                                                        *)

Range(s) == {s[i] : i \in DOMAIN s}

RECURSIVE SeqsUpTo(_, _)
\* all sequences over S of length at most k
SeqsUpTo(S, k) ==
    IF k = 0 THEN {<<>>}
    ELSE LET shorter == SeqsUpTo(S, k - 1)
         IN  shorter \cup {Append(s, x) : s \in shorter, x \in S}

RECURSIVE Perms(_)
\* all enumeration orders of the finite set S
Perms(S) ==
    IF S = {} THEN {<<>>}
    ELSE UNION {{<<x>> \o p : p \in Perms(S \ {x})} : x \in S}

-----------------------------------------------------------------------------
(* Column vocabularies                                                     *)

\* mutant: the omega-3 label is given the code of ALA
key_nutrients_Merged ==
    << <<"Energy (kcal)", "KCAL">>, <<"Protein (g)", "PROT">>,
       <<"Total Fat (g)", "TFAT">>, <<"Carbohydrate (g)", "CARB">>,
       <<"Fiber (g)", "FIBE">>, <<"Sugar (g)", "SUGR">>,
       <<"Calcium (mg)", "CALC">>, <<"Iron (mg)", "IRON">>,
       <<"Vitamin C (mg)", "VC">>, <<"Vitamin D (mcg)", "VITD">>,
       <<"Vitamin A (mcg)", "VARA">>, <<"Vitamin B12 (mcg)", "VB12">>,
       <<"Folate (mcg)", "FOLA">>, <<"Sodium (mg)", "SODI">>,
       <<"Potassium (mg)", "POTA">>, <<"Omega-3 Fatty Acids (g)", "ALA">>,
       <<"Choline (mg)", "CHOLINE">>, <<"Iodine (mcg)", "IODINE">>,
       <<"Zinc (mg)", "ZINC">>, <<"DHA (g)", "DHA">>, <<"EPA (g)", "EPA">>,
       <<"ALA (g)", "ALA">>, <<"Selenium (mcg)", "SELENIUM">>,
       <<"Magnesium (mg)", "MAGNESIUM">> >>

\* key_nutrients: dict literal, in insertion order, as <<key, value>> pairs
key_nutrients ==
    << <<"Energy (kcal)", "KCAL">>, <<"Protein (g)", "PROT">>,
       <<"Total Fat (g)", "TFAT">>, <<"Carbohydrate (g)", "CARB">>,
       <<"Fiber (g)", "FIBE">>, <<"Sugar (g)", "SUGR">>,
       <<"Calcium (mg)", "CALC">>, <<"Iron (mg)", "IRON">>,
       <<"Vitamin C (mg)", "VC">>, <<"Vitamin D (mcg)", "VITD">>,
       <<"Vitamin A (mcg)", "VARA">>, <<"Vitamin B12 (mcg)", "VB12">>,
       <<"Folate (mcg)", "FOLA">>, <<"Sodium (mg)", "SODI">>,
       <<"Potassium (mg)", "POTA">>, <<"Omega-3 Fatty Acids (g)", "OMEGA3">>,
       <<"Choline (mg)", "CHOLINE">>, <<"Iodine (mcg)", "IODINE">>,
       <<"Zinc (mg)", "ZINC">>, <<"DHA (g)", "DHA">>, <<"EPA (g)", "EPA">>,
       <<"ALA (g)", "ALA">>, <<"Selenium (mcg)", "SELENIUM">>,
       <<"Magnesium (mg)", "MAGNESIUM">> >>

\* food_groups: dict literal, in insertion order, as <<key, value>> pairs
food_groups ==
    << <<"Total Fruits (cup eq)", "F_TOTAL">>,
       <<"Citrus/Melons/Berries (cup eq)", "F_CITMLB">>,
       <<"Other Fruits (cup eq)", "F_OTHER">>,
       <<"Total Vegetables (cup eq)", "V_TOTAL">>,
       <<"Dark Green Vegetables (cup eq)", "V_DRKGR">>,
       <<"Red/Orange Vegetables (cup eq)", "V_REDOR_TOTAL">>,
       <<"Total Grains (oz eq)", "G_TOTAL">>,
       <<"Whole Grains (oz eq)", "G_WHOLE">>,
       <<"Refined Grains (oz eq)", "G_REFINED">>,
       <<"Total Protein Foods (oz eq)", "PF_TOTAL">>,
       <<"Meat (oz eq)", "PF_MEAT">>, <<"Poultry (oz eq)", "PF_POULT">>,
       <<"Seafood (oz eq)", "PF_SEAFD_HI">>, <<"Eggs (oz eq)", "PF_EGGS">>,
       <<"Nuts/Seeds (oz eq)", "PF_NUTSDS">>,
       <<"Total Dairy (cup eq)", "D_TOTAL">>, <<"Milk (cup eq)", "D_MILK">>,
       <<"Cheese (cup eq)", "D_CHEESE">>,
       <<"Added Sugars (tsp eq)", "ADD_SUGARS">>, <<"Oils (g)", "OILS">> >>

\* meal_names: dict literal keyed by the string of the occasion code
meal_names ==
    << <<"1", "Breakfast">>, <<"2", "Morning Snack">>, <<"3", "Lunch">>,
       <<"4", "Afternoon Snack">>, <<"5", "Dinner">>, <<"6", "Evening Snack">>,
       <<"7", "Late Evening Snack">>, <<"8", "Other Time">> >>

\* dict.values() / key in dict / dict[key]
DictValues(dct) == [i \in DOMAIN dct |-> dct[i][2]]
DictHas(dct, k) == \E i \in DOMAIN dct : dct[i][1] = k
DictGet(dct, k) == dct[CHOOSE i \in DOMAIN dct : dct[i][1] = k][2]

\* the value pandas puts where Series.map finds no key (a missing label)
NoLabel == "nan"

-----------------------------------------------------------------------------
(* DataFrames                                                              *)
(* A frame is [columns, index, rows]: the column names in order, the names *)
(* of the index levels (none for the RangeIndex read_csv gives) and the    *)
(* rows in order, each [key |-> index value, val |-> column -> cell].      *)
(* A row also carries src, the position of the line of the file it stems  *)
(* from (0 for an aggregate); pandas keeps no such field, the model uses   *)
(* it to relate result rows to stored rows.                                *)

\* pd.DataFrame()
EmptyFrame == [columns |-> <<>>, index |-> <<>>, rows |-> <<>>]

\* pd.read_csv: the columns of the file, a RangeIndex 0..n-1
ReadCsv(cols, cells) ==
    [columns |-> cols, index |-> <<>>,
     rows |-> [i \in DOMAIN cells |->
                 [key |-> <<i - 1>>, src |-> i,
                  val |-> [c \in Range(cols) |-> cells[i][c]]]]]

HasColumn(df, c) == c \in Range(df.columns)

-----------------------------------------------------------------------------
(* Contents of the data directory the model draws from                     *)

IdCols == <<"UserName", "RecallNo", "IntakeStartDateTime">>

FattyAcidFields == <<"S040", "S060", "S080", "S100", "S120", "S140", "S160", "S180">>

UnsatFields == <<"M161", "M181", "P183">>

\* every column a Totals export of the model can have
TotalsAllCols ==
    IdCols \o DictValues(key_nutrients) \o DictValues(food_groups)
        \o <<"F_JUICE", "V_LEGUMES", "MUFA", "PUFA", "SFA", "SFAT">>
        \o UnsatFields \o FattyAcidFields

Without(s, drop) == SelectSeq(s, LAMBDA c : c \notin drop)

\* the columns of a current Totals export
StdCols ==
    Without(TotalsAllCols, {"SFAT"} \cup Range(UnsatFields) \cup Range(FattyAcidFields))

\* column sets of older or sparser Totals exports
SparseSchemas ==
    LET bare == Without(StdCols, {"MUFA", "PUFA", "SFA"})
    IN  { TotalsAllCols,
          bare \o <<"SFAT">> \o UnsatFields \o FattyAcidFields,
          bare \o UnsatFields \o FattyAcidFields,
          bare,
          bare \o <<"SFA">>,
          Without(StdCols, {"F_JUICE"}),
          Without(StdCols, {"V_LEGUMES"}),
          Without(StdCols, {"OMEGA3"}),
          Without(StdCols, {"OILS"}) }

ColNo(c) == CHOOSE i \in DOMAIN TotalsAllCols : TotalsAllCols[i] = c

\* intake profiles: the measures the scoring engine reads.
\* ad = <<F_TOTAL, F_JUICE, V_TOTAL, V_DRKGR, V_LEGUMES, G_WHOLE, D_TOTAL,
\*        PF_TOTAL, PF_SEAFD_HI, PF_NUTSDS>>, fat = <<MUFA, PUFA, SFA>>,
\* mod = <<G_REFINED, SODI, ADD_SUGARS>>; the alias and the single fatty
\* acids differ from the columns they stand in for
Profile(kcal, ad, fat, mod) ==
    [KCAL |-> Int2Q(kcal), F_TOTAL |-> ad[1], F_JUICE |-> ad[2], V_TOTAL |-> ad[3],
     V_DRKGR |-> ad[4], V_LEGUMES |-> ad[5], G_WHOLE |-> ad[6], D_TOTAL |-> ad[7],
     PF_TOTAL |-> ad[8], PF_SEAFD_HI |-> ad[9], PF_NUTSDS |-> ad[10],
     MUFA |-> fat[1], PUFA |-> fat[2], SFA |-> fat[3], SFAT |-> QAdd(fat[3], Int2Q(2)),
     M161 |-> Int2Q(1), M181 |-> fat[1], P183 |-> fat[2],
     S040 |-> Rat(1, 2), S060 |-> Rat(1, 2), S080 |-> Rat(1, 2), S100 |-> Rat(1, 2),
     S120 |-> Rat(1, 2), S140 |-> Rat(1, 2), S160 |-> Rat(1, 2),
     S180 |-> QAdd(fat[3], Rat(1, 2)),
     G_REFINED |-> mod[1], SODI |-> mod[2], ADD_SUGARS |-> mod[3]]

\* a balanced day: fruit density exactly 0.8, sodium density exactly 1.1
Balanced ==
    Profile(2000,
            <<Rat(16, 10), Int2Q(0), Int2Q(1), Rat(1, 10), Rat(1, 10),
              Rat(3, 2), Int2Q(1), Int2Q(3), Rat(1, 2), Rat(1, 2)>>,
            <<Int2Q(25), Int2Q(15), Int2Q(20)>>,
            <<Int2Q(6), Int2Q(2200), Int2Q(40)>>)

\* energy only: every other measure is zero
AllZero ==
    Profile(1500,
            <<Int2Q(0), Int2Q(0), Int2Q(0), Int2Q(0), Int2Q(0),
              Int2Q(0), Int2Q(0), Int2Q(0), Int2Q(0), Int2Q(0)>>,
            <<Int2Q(0), Int2Q(0), Int2Q(0)>>,
            <<Int2Q(0), Int2Q(0), Int2Q(0)>>)

\* far above every standard and every limit, no saturated fat
Excess ==
    Profile(1000,
            <<Int2Q(9), Int2Q(1), Int2Q(9), Int2Q(4), Int2Q(5),
              Int2Q(9), Int2Q(9), Int2Q(9), Int2Q(4), Int2Q(5)>>,
            <<Int2Q(30), Int2Q(10), Int2Q(0)>>,
            <<Int2Q(9), Int2Q(5000), Int2Q(90)>>)

\* a recall with no energy recorded
NoEnergy ==
    Profile(0,
            <<Int2Q(1), Int2Q(0), Int2Q(0), Int2Q(1), Int2Q(0),
              Int2Q(1), Int2Q(0), Int2Q(1), Int2Q(0), Int2Q(1)>>,
            <<Int2Q(10), Int2Q(5), Int2Q(40)>>,
            <<Int2Q(1), Int2Q(100), Int2Q(0)>>)

\* one line of a Totals export
TotalsLine(user, recall, when, p) ==
    [c \in Range(TotalsAllCols) |->
        CASE c = "UserName" -> user
          [] c = "RecallNo" -> recall
          [] c = "IntakeStartDateTime" -> when
          [] c \in DOMAIN p -> p[c]
          [] OTHER -> Int2Q(ColNo(c))]

\* the first two lines share (UserName, RecallNo)
TotalsLines ==
    { TotalsLine("u1", 1, "2024-01-05 08:00", Balanced),
      TotalsLine("u1", 1, "2024-01-06 09:30", Excess),
      TotalsLine("u2", 12, "2024-02-01 07:15", AllZero),
      TotalsLine("u2", 2, "2024-02-02 07:45", NoEnergy) }

\* the lines the sparse exports are filled with
SparseLines ==
    { TotalsLine("u1", 1, "2024-01-05 08:00", Balanced),
      TotalsLine("u2", 12, "2024-02-01 07:15", AllZero) }

TotalsFrames ==
    {ReadCsv(StdCols, cells) : cells \in SeqsUpTo(TotalsLines, MaxRows)}
    \cup {ReadCsv(cols, cells) : cols \in SparseSchemas, cells \in SeqsUpTo(SparseLines, MaxRows)}

ItemsCols ==
    <<"UserName", "RecallNo", "Occ_Name", "Food_Description", "FoodAmt",
      "FoodNum", "KCAL", "PROT", "TFAT", "CARB">>

\* one line of an Items export; m = <<KCAL, PROT, TFAT, CARB>>
ItemsLine(user, recall, occ, food, amt, num, m) ==
    [UserName |-> user, RecallNo |-> recall, Occ_Name |-> occ,
     Food_Description |-> food, FoodAmt |-> amt, FoodNum |-> num,
     KCAL |-> m[1], PROT |-> m[2], TFAT |-> m[3], CARB |-> m[4]]

\* two breakfast items of one recall, an occasion code outside 1..8 with no
\* FoodNum, a lunch item of another subject, and a breakfast item whose
\* FoodNum cell is empty
ItemsLines ==
    { ItemsLine("u1", 1, 1, "Oatmeal", Int2Q(234), Int2Q(1),
                <<Int2Q(150), Int2Q(5), Int2Q(3), Int2Q(27)>>),
      ItemsLine("u1", 1, 1, "Banana", Int2Q(118), Int2Q(2),
                <<Int2Q(105), Rat(13, 10), Rat(4, 10), Int2Q(27)>>),
      ItemsLine("u2", 12, 9, "Water", Int2Q(500), NaN,
                <<Int2Q(0), Int2Q(0), Int2Q(0), Int2Q(0)>>),
      ItemsLine("u2", 12, 3, "Salad", Int2Q(90), Int2Q(1),
                <<Rat(8025, 100), Rat(235, 100), Rat(615, 100), Rat(3, 4)>>),
      ItemsLine("u1", 1, 1, "Coffee", Int2Q(240), NaN,
                <<Int2Q(2), Rat(3, 10), Int2Q(0), Int2Q(0)>>) }

ItemsFrames == {ReadCsv(ItemsCols, cells) : cells \in SeqsUpTo(ItemsLines, MaxRows)}

InsCols ==
    <<"UserName", "RecallNo", "IntakeStartDateTime", "Suppl_Description",
      "SupplAmount", "SupplUnit">>

InsLine(user, recall, when, what, amt, unit) ==
    [UserName |-> user, RecallNo |-> recall, IntakeStartDateTime |-> when,
     Suppl_Description |-> what, SupplAmount |-> amt, SupplUnit |-> unit]

InsLines ==
    { InsLine("u1", 1, "2024-01-05 08:00", "Vitamin D", Int2Q(1000), "IU"),
      InsLine("u3", 2, "2024-03-01 10:00", "Iron", Int2Q(18), "mg"),
      InsLine("u1", 10, "2024-01-20 08:00", "Vitamin D", Int2Q(1000), "IU") }

InsFrames == {ReadCsv(InsCols, cells) : cells \in SeqsUpTo(InsLines, MaxRows)}

\* file names, as os.listdir returns them
fTotalsA == <<"a", "_", "T", "o", "t", "a", "l", "s", ".", "c", "s", "v">>
fTotalsB == <<"b", "_", "T", "o", "t", "a", "l", "s", ".", "c", "s", "v">>
fItems == <<"a", "_", "I", "t", "e", "m", "s", ".", "c", "s", "v">>
fIns == <<"x", "_", "y", "_", "I", "N", "S", ".", "c", "s", "v">>
fResp == <<"R", "e", "s", "p", ".", "c", "s", "v">>
fNotes == <<"a", "_", "I", "N", "S", ".", "t", "x", "t">>

\* category names, as the projectors look them up
Totals == <<"T", "o", "t", "a", "l", "s">>
Items == <<"I", "t", "e", "m", "s">>
INS == <<"I", "N", "S">>

\* fixed contents used where a file is not the one being varied
TotalsOfA ==
    ReadCsv(TotalsAllCols,
            << TotalsLine("u1", 1, "2024-01-05 08:00", Balanced),
               TotalsLine("u2", 12, "2024-02-01 07:15", AllZero) >>)

TotalsOfB ==
    ReadCsv(TotalsAllCols, << TotalsLine("u4", 3, "2024-04-01 12:00", Excess) >>)

ItemsOfA ==
    ReadCsv(ItemsCols,
            << ItemsLine("u1", 1, 1, "Oatmeal", Int2Q(234), Int2Q(1),
                <<Int2Q(150), Int2Q(5), Int2Q(3), Int2Q(27)>>),
               ItemsLine("u5", 2, 5, "Rice", Int2Q(200), Int2Q(1),
                <<Int2Q(260), Int2Q(5), Int2Q(1), Int2Q(57)>>) >>)

InsOfA ==
    ReadCsv(InsCols,
            << InsLine("u1", 1, "2024-01-05 08:00", "Vitamin D", Int2Q(1000), "IU"),
               InsLine("u3", 2, "2024-03-01 10:00", "Iron", Int2Q(18), "mg") >>)

\* a table with no UserName column
RespOfA ==
    ReadCsv(<<"RecallNo", "Status">>, << [RecallNo |-> 1, Status |-> "complete"] >>)

\* what a non-.csv file would give if it were read
NotesOfA ==
    ReadCsv(InsCols,
            << InsLine("u7", 1, "2024-05-05 08:00", "Zinc", Int2Q(10), "mg") >>)

FixedFiles ==
    (fTotalsA :> TotalsOfA) @@ (fTotalsB :> TotalsOfB) @@ (fItems :> ItemsOfA)
        @@ (fIns :> InsOfA) @@ (fResp :> RespOfA) @@ (fNotes :> NotesOfA)

Restrict(f, S) == [x \in S |-> f[x]]

\* the directories of the model: file name -> parsed content
Directories ==
    {(fTotalsA :> t) @@ (fItems :> ItemsOfA) @@ (fIns :> InsOfA) : t \in TotalsFrames}
    \cup {(fTotalsA :> TotalsOfA) @@ (fItems :> i) : i \in ItemsFrames}
    \cup {(fIns :> s) @@ (fNotes :> NotesOfA) : s \in InsFrames}
    \cup {Restrict(FixedFiles, S) : S \in SUBSET (DOMAIN FixedFiles)}

-----------------------------------------------------------------------------
(* ASA24Analyzer.__init__ / load_data                                      *)

EndsWith(s, suffix) ==
    /\ Len(s) >= Len(suffix)
    /\ SubSeq(s, Len(s) - Len(suffix) + 1, Len(s)) = suffix

StartsWith(s, prefix) ==
    /\ Len(s) >= Len(prefix)
    /\ SubSeq(s, 1, Len(prefix)) = prefix

\* mutant: what follows the first sep
LastSegment_First(s, sep) ==
    IF \E i \in DOMAIN s : s[i] = sep
    THEN SubSeq(s, (CHOOSE i \in DOMAIN s : s[i] = sep /\ \A j \in 1..(i - 1) : s[j] # sep) + 1, Len(s))
    ELSE s

\* s.split(sep)[-1] for a one-character sep: what follows the last sep
RECURSIVE LastSegment(_, _)
LastSegment(s, sep) ==
    IF \E i \in DOMAIN s : s[i] = sep
    THEN LastSegment(Tail(s), sep)
    ELSE s

\* s.replace(old, ''): every non-overlapping occurrence, left to right
RECURSIVE Remove(_, _)
Remove(s, old) ==
    IF s = <<>> THEN <<>>
    ELSE IF StartsWith(s, old) THEN Remove(SubSeq(s, Len(old) + 1, Len(s)), old)
    ELSE <<Head(s)>> \o Remove(Tail(s), old)

DotCsv == <<".", "c", "s", "v">>

\* name = file.split('_')[-1].replace('.csv', '')
CategoryOf(file) == Remove(LastSegment(file, "_"), DotCsv)

\* df['UserName'].unique()
Unique(df, c) == {df.rows[i].val[c] : i \in DOMAIN df.rows}

\* one iteration of the loop of load_data
LoadFile(st, file, df) ==
    IF EndsWith(file, DotCsv)
    THEN [data |-> (CategoryOf(file) :> df) @@ st.data,
          subjects |-> IF HasColumn(df, "UserName")
                       THEN st.subjects \cup Unique(df, "UserName")
                       ELSE st.subjects]
    ELSE st

\* the loop of load_data over os.listdir's order
RECURSIVE LoadAll(_, _, _)
LoadAll(st, d, order) ==
    IF order = <<>> THEN st
    ELSE LoadAll(LoadFile(st, Head(order), d[Head(order)]), d, Tail(order))

\* __init__: data = {}, subjects = set(), then load_data()
Construct(d, order) == LoadAll([data |-> <<>>, subjects |-> {}], d, order)

-----------------------------------------------------------------------------
(* Frame operations used by the projectors                                 *)

\* a call's outcome: the frame returned, or the exception raised
Ok(frame) == [exc |-> "", out |-> frame]
Raise(e) == [exc |-> e, out |-> EmptyFrame]

\* the subjects argument: absent (None) or a list of ids
None == [given |-> FALSE, ids |-> <<>>]
List(ids) == [given |-> TRUE, ids |-> ids]

\* mutant: `if subjects is not None:`
Truthy_NotNone(arg) == arg.given

\* `if subjects:` -- None and the empty list are falsy
Truthy(arg) == arg.given /\ arg.ids # <<>>

\* mutant: the mask is negated
IsIn_Complement(df, ids) ==
    [df EXCEPT !.rows = SelectSeq(df.rows, LAMBDA r : r.val["UserName"] \notin Range(ids))]

\* df[df['UserName'].isin(subjects)]: a new frame, rows and index labels kept
IsIn(df, ids) ==
    [df EXCEPT !.rows = SelectSeq(df.rows, LAMBDA r : r.val["UserName"] \in Range(ids))]

\* the columns of want that df lacks (df[[...]] raises KeyError on any)
Missing(df, want) == {c \in Range(want) : ~HasColumn(df, c)}

\* df[[c1, ..., cn]].copy()
Select(df, want) ==
    [df EXCEPT !.columns = want,
               !.rows = [i \in DOMAIN df.rows |->
                           [df.rows[i] EXCEPT !.val = [c \in Range(want) |-> df.rows[i].val[c]]]]]

\* df[c] = F(row): overwrite column c, or append it when new
Assign(df, c, F(_)) ==
    [df EXCEPT !.columns = IF HasColumn(df, c) THEN df.columns ELSE Append(df.columns, c),
               !.rows = [i \in DOMAIN df.rows |->
                           [df.rows[i] EXCEPT !.val =
                               [k \in Range(df.columns) \cup {c} |->
                                   IF k = c THEN F(df.rows[i].val) ELSE df.rows[i].val[k]]]]]

\* df.rename(columns=mapper): a column whose name is a KEY of mapper gets the
\* mapped value as its name, every other column keeps its name
\* mutant: the dict is read code -> label, a column named by a VALUE is renamed
RenamedTo_ByValue(mapper, c) ==
    IF \E i \in DOMAIN mapper : mapper[i][2] = c
    THEN mapper[CHOOSE i \in DOMAIN mapper : mapper[i][2] = c][1]
    ELSE c

RenamedTo(mapper, c) == IF DictHas(mapper, c) THEN DictGet(mapper, c) ELSE c

Rename(df, mapper) ==
    LET names == [i \in DOMAIN df.columns |-> RenamedTo(mapper, df.columns[i])]
        from == [k \in Range(names) |->
                    df.columns[CHOOSE i \in DOMAIN names : names[i] = k]]
    IN  [df EXCEPT !.columns = names,
                   !.rows = [i \in DOMAIN df.rows |->
                               [df.rows[i] EXCEPT !.val =
                                   [k \in Range(names) |-> df.rows[i].val[from[k]]]]]]

\* mutant: rows that repeat an earlier row's key are dropped
SetIndex_Unique(df, keys) ==
    LET rest == Without(df.columns, Range(keys))
        keyAt(i) == [j \in DOMAIN keys |-> df.rows[i].val[keys[j]]]
        firsts == {i \in DOMAIN df.rows : \A h \in 1..(i - 1) : keyAt(h) # keyAt(i)}
        pick(n) == CHOOSE i \in firsts : Cardinality({h \in firsts : h < i}) = n - 1
    IN  [columns |-> rest, index |-> keys,
         rows |-> [n \in 1..Cardinality(firsts) |->
                     [key |-> keyAt(pick(n)),
                      src |-> df.rows[pick(n)].src,
                      val |-> [c \in Range(rest) |-> df.rows[pick(n)].val[c]]]]]

\* df.set_index(keys): the key columns become the index, no uniqueness check
SetIndex(df, keys) ==
    LET rest == Without(df.columns, Range(keys))
    IN  [columns |-> rest, index |-> keys,
         rows |-> [i \in DOMAIN df.rows |->
                     [key |-> [j \in DOMAIN keys |-> df.rows[i].val[keys[j]]],
                      src |-> df.rows[i].src,
                      val |-> [c \in Range(rest) |-> df.rows[i].val[c]]]]]

\* pd.to_datetime of a well-formed timestamp string
ToDatetime(s) == [timestamp |-> s]

\* mutant: the number is padded to two digits
VisitLabel_Padded(recall) ==
    "Visit " \o (IF recall >= 0 /\ recall < 10 THEN "0" ELSE "") \o IntStr(recall)

\* 'Visit ' + RecallNo.astype(str)
VisitLabel(recall) == "Visit " \o IntStr(recall)

\* mutant: a code without a label falls to the last label
MealLabel_Catchall(occ) ==
    IF DictHas(meal_names, IntStr(occ)) THEN DictGet(meal_names, IntStr(occ)) ELSE "Other Time"

\* Occ_Name.astype(str).map(meal_names)
MealLabel(occ) ==
    IF DictHas(meal_names, IntStr(occ)) THEN DictGet(meal_names, IntStr(occ)) ELSE NoLabel

\* the filter stage at the head of every projector
FilterStage(df, arg) == IF Truthy(arg) THEN IsIn(df, arg.ids) ELSE df

\* a call that leaves the store as it is
Pure(store, outcome) == [exc |-> outcome.exc, out |-> outcome.out, data |-> store]

-----------------------------------------------------------------------------
(* The projectors                                                          *)

\* mutant: the columns the table lacks are left out of the selection
Summary_Partial(df, mapper) ==
    LET want == SelectSeq(IdCols \o DictValues(mapper), LAMBDA c : HasColumn(df, c))
        picked == Select(df, want)
        timed == Assign(picked, "IntakeStartDateTime",
                        LAMBDA v : ToDatetime(v["IntakeStartDateTime"]))
        visited == Assign(timed, "Visit", LAMBDA v : VisitLabel(v["RecallNo"]))
    IN  Ok(SetIndex(Rename(visited, mapper), <<"UserName", "Visit">>))

\* nutrient and food-group summaries share their body up to the dict
Summary(df, mapper) ==
    LET want == IdCols \o DictValues(mapper)
    IN  IF Missing(df, want) # {} THEN Raise("KeyError")
        ELSE LET picked == Select(df, want)
                 timed == Assign(picked, "IntakeStartDateTime",
                                 LAMBDA v : ToDatetime(v["IntakeStartDateTime"]))
                 visited == Assign(timed, "Visit", LAMBDA v : VisitLabel(v["RecallNo"]))
                 renamed == Rename(visited, mapper)
             IN  Ok(SetIndex(renamed, <<"UserName", "Visit">>))

\* mutant: the table is read without the presence test
get_nutrient_summary_Unguarded(store, arg) ==
    IF Totals \in DOMAIN store
    THEN Pure(store, Summary(FilterStage(store[Totals], arg), key_nutrients))
    ELSE Pure(store, Raise("KeyError"))

get_nutrient_summary(store, arg) ==
    IF Totals \in DOMAIN store
    THEN Pure(store, Summary(FilterStage(store[Totals], arg), key_nutrients))
    ELSE Pure(store, Ok(EmptyFrame))

get_food_groups_summary(store, arg) ==
    IF Totals \in DOMAIN store
    THEN Pure(store, Summary(FilterStage(store[Totals], arg), food_groups))
    ELSE Pure(store, Ok(EmptyFrame))

get_supplement_summary(store, arg) ==
    IF INS \in DOMAIN store
    THEN LET df == FilterStage(store[INS], arg)
         IN  IF Missing(df, InsCols) # {} THEN Pure(store, Raise("KeyError"))
             ELSE LET picked == Select(df, InsCols)
                      timed == Assign(picked, "IntakeStartDateTime",
                                      LAMBDA v : ToDatetime(v["IntakeStartDateTime"]))
                  IN  Pure(store, Ok(Assign(timed, "Visit",
                                            LAMBDA v : VisitLabel(v["RecallNo"]))))
    ELSE Pure(store, Ok(EmptyFrame))

FoodItemCols ==
    <<"UserName", "RecallNo", "Occ_Name", "Food_Description", "FoodAmt",
      "KCAL", "PROT", "TFAT", "CARB">>

get_detailed_food_items(store, arg) ==
    IF Items \in DOMAIN store
    THEN LET df == FilterStage(store[Items], arg)
         IN  IF Missing(df, FoodItemCols) # {} THEN Pure(store, Raise("KeyError"))
             ELSE LET picked == Select(df, FoodItemCols)
                      mealed == Assign(picked, "Meal", LAMBDA v : MealLabel(v["Occ_Name"]))
                  IN  Pure(store, Ok(Assign(mealed, "Visit",
                                            LAMBDA v : VisitLabel(v["RecallNo"]))))
    ELSE Pure(store, Ok(EmptyFrame))

\* Python's str order on the strings of the model (code point order)
StrOrder ==
    <<"Afternoon Snack", "Breakfast", "Dinner", "Evening Snack",
      "Late Evening Snack", "Lunch", "Morning Snack", "Other Time",
      "nan", "u1", "u2", "u3", "u4", "u5", "u7", "u9">>

StrRank(x) == CHOOSE i \in DOMAIN StrOrder : StrOrder[i] = x

\* order of the group keys (UserName, RecallNo, Meal) under groupby(sort=True)
KeyLess(a, b) ==
    \/ StrRank(a[1]) < StrRank(b[1])
    \/ a[1] = b[1] /\ a[2] < b[2]
    \/ a[1] = b[1] /\ a[2] = b[2] /\ StrRank(a[3]) < StrRank(b[3])

RECURSIVE SortKeys(_)
SortKeys(K) ==
    IF K = {} THEN <<>>
    ELSE LET least == CHOOSE k \in K : \A other \in K \ {k} : KeyLess(k, other)
         IN  <<least>> \o SortKeys(K \ {least})

\* sum of a column over rows, NaN cells skipped
RECURSIVE SumSkipNa(_, _)
SumSkipNa(rows, c) ==
    IF rows = <<>> THEN Int2Q(0)
    ELSE LET x == Head(rows).val[c]
         IN  IF IsNaN(x) THEN SumSkipNa(Tail(rows), c)
             ELSE QAdd(x, SumSkipNa(Tail(rows), c))

\* 'count': the cells of the column that are not NaN
CountNotNa(rows, c) == Cardinality({i \in DOMAIN rows : ~IsNaN(rows[i].val[c])})

\* round(1): to one decimal place, ties to the even digit
Round1(x) ==
    IF ~IsFinite(x) THEN x
    ELSE LET q == (10 * x.n) \div x.d
             r == (10 * x.n) % x.d
             up == 2 * r > x.d \/ (2 * r = x.d /\ q % 2 = 1)
         IN  Rat(IF up THEN q + 1 ELSE q, 10)

MealAggCols == <<"FoodNum", "KCAL", "PROT", "TFAT", "CARB">>

MealOutCols == <<"Number of Items", "Calories", "Protein (g)", "Fat (g)", "Carbs (g)">>

\* groupby(['UserName','RecallNo','Meal']).agg(...).round(1), columns renamed,
\* reset_index, Visit added, set_index(['UserName','Visit','Meal'])
MealGroups(df) ==
    LET keyOf(r) == <<r.val["UserName"], r.val["RecallNo"], r.val["Meal"]>>
        kept == SelectSeq(df.rows, LAMBDA r : r.val["Meal"] # NoLabel)
        keys == SortKeys({keyOf(kept[i]) : i \in DOMAIN kept})
        group(k) == SelectSeq(kept, LAMBDA r : keyOf(r) = k)
    IN  [columns |-> <<"RecallNo">> \o MealOutCols,
         index |-> <<"UserName", "Visit", "Meal">>,
         rows |-> [i \in DOMAIN keys |->
                     LET k == keys[i]
                         g == group(k)
                     IN  [key |-> <<k[1], VisitLabel(k[2]), k[3]>>,
                          src |-> 0,
                          val |-> [c \in {"RecallNo"} \cup Range(MealOutCols) |->
                                     CASE c = "RecallNo" -> k[2]
                                       [] c = "Number of Items" -> Int2Q(CountNotNa(g, "FoodNum"))
                                       [] c = "Calories" -> Round1(SumSkipNa(g, "KCAL"))
                                       [] c = "Protein (g)" -> Round1(SumSkipNa(g, "PROT"))
                                       [] c = "Fat (g)" -> Round1(SumSkipNa(g, "TFAT"))
                                       [] c = "Carbs (g)" -> Round1(SumSkipNa(g, "CARB"))]]]]

\* mutant: the filtered, labelled frame is stored back whatever the argument
get_meal_summary_StoresFiltered(store, arg) ==
    IF Items \in DOMAIN store
    THEN LET df == FilterStage(store[Items], arg)
         IN  IF ~HasColumn(df, "Occ_Name") THEN Pure(store, Raise("KeyError"))
             ELSE LET mealed == Assign(df, "Meal", LAMBDA v : MealLabel(v["Occ_Name"]))
                      after == [store EXCEPT ![Items] = mealed]
                  IN  IF Missing(mealed, <<"UserName", "RecallNo">> \o MealAggCols) # {}
                      THEN [exc |-> "KeyError", out |-> EmptyFrame, data |-> after]
                      ELSE [exc |-> "", out |-> MealGroups(mealed), data |-> after]
    ELSE Pure(store, Ok(EmptyFrame))

\* df['Meal'] = ... is an assignment on df itself: on the stored Items frame
\* when no filter was applied, on the filter's new frame otherwise
get_meal_summary(store, arg) ==
    IF Items \in DOMAIN store
    THEN LET df == FilterStage(store[Items], arg)
         IN  IF ~HasColumn(df, "Occ_Name") THEN Pure(store, Raise("KeyError"))
             ELSE LET mealed == Assign(df, "Meal", LAMBDA v : MealLabel(v["Occ_Name"]))
                      after == IF Truthy(arg) THEN store
                               ELSE [store EXCEPT ![Items] = mealed]
                  IN  IF Missing(mealed, <<"UserName", "RecallNo">> \o MealAggCols) # {}
                      THEN [exc |-> "KeyError", out |-> EmptyFrame, data |-> after]
                      ELSE [exc |-> "", out |-> MealGroups(mealed), data |-> after]
    ELSE Pure(store, Ok(EmptyFrame))

-----------------------------------------------------------------------------
(* calculate_hei_2015                                                      *)

HeiComponents ==
    <<"Total Fruits", "Whole Fruits", "Total Vegetables", "Greens and Beans",
      "Whole Grains", "Dairy", "Total Protein Foods",
      "Seafood and Plant Proteins", "Fatty Acids", "Refined Grains", "Sodium",
      "Added Sugars", "Saturated Fats">>

\* the columns read unconditionally, in the order the code reads them
HeiAdequacyCols ==
    <<"UserName", "RecallNo", "KCAL", "F_TOTAL", "F_JUICE", "V_TOTAL", "V_DRKGR",
      "V_LEGUMES", "G_WHOLE", "D_TOTAL", "PF_TOTAL", "PF_SEAFD_HI", "PF_NUTSDS">>

HeiModerationCols == <<"G_REFINED", "SODI", "ADD_SUGARS">>

\* energy_factor = 1000 / df['KCAL']
EnergyFactor(v) == QDiv(Int2Q(1000), v["KCAL"])

\* mutant: the score is not capped at the component's points
Adequacy_Uncapped(density, standard, points) ==
    LET raw == QMul(QDiv(density, standard), Int2Q(points))
    IN  IF QLt(raw, Int2Q(0)) THEN Int2Q(0) ELSE raw

\* (density / standard * points).clip(0, points)
Adequacy(density, standard, points) ==
    Clip(QMul(QDiv(density, standard), Int2Q(points)), Int2Q(0), Int2Q(points))

\* mutant: the interpolation is not inverted
Moderation_Direct(x, worst, best) ==
    Clip(QMul(QDiv(QSub(x, best), QSub(worst, best)), Int2Q(10)), Int2Q(0), Int2Q(10))

\* ((worst - x) / (worst - best) * 10).clip(0, 10)
Moderation(x, worst, best) ==
    Clip(QMul(QDiv(QSub(worst, x), QSub(worst, best)), Int2Q(10)), Int2Q(0), Int2Q(10))

\* ((ratio - 1.2) / (2.5 - 1.2) * 10).clip(0, 10)
FattyAcidScore(unsat, sat) ==
    Clip(QMul(QDiv(QSub(QDiv(unsat, sat), Rat(12, 10)),
                   QSub(Rat(25, 10), Rat(12, 10))), Int2Q(10)),
         Int2Q(0), Int2Q(10))

RECURSIVE SumCols(_, _)
\* df[c1] + df[c2] + ... on one row
SumCols(v, cols) ==
    IF Len(cols) = 1 THEN v[cols[1]]
    ELSE QAdd(SumCols(v, SubSeq(cols, 1, Len(cols) - 1)), v[cols[Len(cols)]])

\* mutant: without MUFA, PUFA and SFA the score goes straight to the default
FattyAcidBranch_NoDerived(df) ==
    IF Missing(df, <<"MUFA", "PUFA", "SFA">>) = {} THEN "ratio" ELSE "default"

\* which branch of component 9 the columns of df select
FattyAcidBranch(df) ==
    IF Missing(df, <<"MUFA", "PUFA", "SFA">>) = {} THEN "ratio"
    ELSE IF Missing(df, UnsatFields \o FattyAcidFields) = {} THEN "derived"
    ELSE "default"

\* mutant: the SFAT alias is tried before SFA
SatFatBranch_AliasFirst(df) ==
    IF HasColumn(df, "SFAT") THEN "SFAT"
    ELSE IF HasColumn(df, "SFA") THEN "SFA"
    ELSE IF Missing(df, FattyAcidFields) = {} THEN "sum"
    ELSE "default"

\* which branch of component 13 the columns of df select
SatFatBranch(df) ==
    IF HasColumn(df, "SFA") THEN "SFA"
    ELSE IF HasColumn(df, "SFAT") THEN "SFAT"
    ELSE IF Missing(df, FattyAcidFields) = {} THEN "sum"
    ELSE "default"

\* value * 9 * 100 / KCAL
PercentOfEnergy(x, v) == QDiv(QMul(QMul(x, Int2Q(9)), Int2Q(100)), v["KCAL"])

\* sat_fat_perc of one Totals row: a cell of the Series in the first three
\* branches, the number 12 in the default branch
sat_fat_perc(df, v) ==
    LET sf == SatFatBranch(df)
    IN  CASE sf = "SFA" -> PercentOfEnergy(v["SFA"], v)
          [] sf = "SFAT" -> PercentOfEnergy(v["SFAT"], v)
          [] sf = "sum" -> PercentOfEnergy(SumCols(v, FattyAcidFields), v)
          [] sf = "default" -> Int2Q(12)

\* the 13 component scores of one Totals row
HeiScores(df, v) ==
    LET ef == EnergyFactor(v)
        fa == FattyAcidBranch(df)
        pct == sat_fat_perc(df, v)
    IN  [c \in Range(HeiComponents) |->
          CASE c = "Total Fruits" -> Adequacy(QMul(v["F_TOTAL"], ef), Rat(8, 10), 5)
            [] c = "Whole Fruits" ->
                   Adequacy(QMul(QSub(v["F_TOTAL"], v["F_JUICE"]), ef), Rat(4, 10), 5)
            [] c = "Total Vegetables" -> Adequacy(QMul(v["V_TOTAL"], ef), Rat(11, 10), 5)
            [] c = "Greens and Beans" ->
                   Adequacy(QMul(QAdd(v["V_DRKGR"], v["V_LEGUMES"]), ef), Rat(2, 10), 5)
            [] c = "Whole Grains" -> Adequacy(QMul(v["G_WHOLE"], ef), Rat(15, 10), 10)
            [] c = "Dairy" -> Adequacy(QMul(v["D_TOTAL"], ef), Rat(13, 10), 10)
            [] c = "Total Protein Foods" -> Adequacy(QMul(v["PF_TOTAL"], ef), Rat(25, 10), 5)
            [] c = "Seafood and Plant Proteins" ->
                   Adequacy(QMul(QAdd(v["PF_SEAFD_HI"], v["PF_NUTSDS"]), ef), Rat(8, 10), 5)
            [] c = "Fatty Acids" ->
                   (CASE fa = "ratio" -> FattyAcidScore(QAdd(v["MUFA"], v["PUFA"]), v["SFA"])
                      [] fa = "derived" ->
                             FattyAcidScore(SumCols(v, UnsatFields), SumCols(v, FattyAcidFields))
                      [] fa = "default" -> Int2Q(5))
            [] c = "Refined Grains" ->
                   Moderation(QMul(v["G_REFINED"], ef), Rat(43, 10), Rat(18, 10))
            [] c = "Sodium" ->
                   Moderation(QDiv(QMul(v["SODI"], ef), Int2Q(1000)), Int2Q(2), Rat(11, 10))
            [] c = "Added Sugars" ->
                   Moderation(QDiv(QMul(QMul(v["ADD_SUGARS"], Int2Q(4)), Int2Q(100)), v["KCAL"]),
                              Int2Q(26), Rat(65, 10))
            [] c = "Saturated Fats" -> Moderation(pct, Int2Q(16), Int2Q(8))]

RECURSIVE SumRowSkipNa(_, _)
\* DataFrame.sum(axis=1): the row's cells added up, NaN cells skipped
SumRowSkipNa(v, cols) ==
    IF cols = <<>> THEN Int2Q(0)
    ELSE IF IsNaN(v[Head(cols)]) THEN SumRowSkipNa(v, Tail(cols))
    ELSE QAdd(v[Head(cols)], SumRowSkipNa(v, Tail(cols)))

\* hei_scores before set_index: UserName, Visit, the 13 scores in the order
\* they are assigned, then Total HEI Score, the sum over every column but
\* UserName and Visit
HeiTable(df) ==
    [columns |-> <<"UserName", "Visit">> \o HeiComponents \o <<"Total HEI Score">>,
     index |-> <<>>,
     rows |-> [i \in DOMAIN df.rows |->
                 LET v == df.rows[i].val
                     sc == HeiScores(df, v)
                 IN  [key |-> df.rows[i].key,
                      src |-> df.rows[i].src,
                      val |-> [c \in {"UserName", "Visit", "Total HEI Score"}
                                      \cup Range(HeiComponents) |->
                                 CASE c = "UserName" -> v["UserName"]
                                   [] c = "Visit" -> VisitLabel(v["RecallNo"])
                                   [] c = "Total HEI Score" ->
                                          SumRowSkipNa(sc, Without(HeiComponents, {"UserName", "Visit"}))
                                   [] OTHER -> sc[c]]]]]

HeiFrame(df) == SetIndex(HeiTable(df), <<"UserName", "Visit">>)

\* the default branch of component 13 leaves a Python float in sat_fat_perc and
\* calls .clip on the float expression built from it
calculate_hei_2015(store, arg) ==
    IF Totals \notin DOMAIN store THEN Pure(store, Ok(EmptyFrame))
    ELSE LET df == FilterStage(store[Totals], arg)
         IN  IF Missing(df, HeiAdequacyCols \o HeiModerationCols) # {}
             THEN Pure(store, Raise("KeyError"))
             ELSE IF SatFatBranch(df) = "default"
             THEN Pure(store, Raise("AttributeError"))
             ELSE Pure(store, Ok(HeiFrame(df)))

-----------------------------------------------------------------------------
(* The state machine                                                       *)

\* the subject arguments callers pass
SubjectArgs ==
    {None, List(<<>>), List(<<"u1">>), List(<<"u2", "u9">>)}

\* the callers that may be inside a method of the analyzer at the same time
Callers == {"A", "B"}

\* a caller's frame of a method call: the method and its argument, the point
\* reached, the local df (shared: df is the stored table itself, not a frame
\* of the caller's own), and the outcome once the call is over
Idle ==
    [pc |-> "idle", op |-> "", arg |-> None, shared |-> FALSE, df |-> EmptyFrame,
     exc |-> "", out |-> EmptyFrame]

NoCalls == [c \in Callers |-> Idle]

\* the analyzer used as a library: no run of main()
NoUi == [app |-> "", pc |-> "", selected |-> <<>>, page |-> "", shown |-> ""]

\* the state after ASA24Analyzer(data_dir), for any directory of the model and
\* any order in which os.listdir enumerates it
Init ==
    \E d \in Directories :
        \E order \in Perms(DOMAIN d) :
            LET st == Construct(d, order)
            IN  /\ dir = d
                /\ data = st.data
                /\ subjects = st.subjects
                /\ loaded = st
                /\ ret = [op |-> "__init__", arg |-> None, exc |-> "", out |-> EmptyFrame]
                /\ calls = NoCalls
                /\ ui = NoUi

Return(op, arg, r) ==
    /\ ret' = [op |-> op, arg |-> arg, exc |-> r.exc, out |-> r.out]
    /\ data' = r.data
    /\ UNCHANGED <<dir, subjects, loaded, calls, ui>>

NutrientSummary ==
    \E arg \in SubjectArgs :
        Return("get_nutrient_summary", arg, get_nutrient_summary(data, arg))

FoodGroupsSummary ==
    \E arg \in SubjectArgs :
        Return("get_food_groups_summary", arg, get_food_groups_summary(data, arg))

SupplementSummary ==
    \E arg \in SubjectArgs :
        Return("get_supplement_summary", arg, get_supplement_summary(data, arg))

MealSummary ==
    \E arg \in SubjectArgs :
        Return("get_meal_summary", arg, get_meal_summary(data, arg))

DetailedFoodItems ==
    \E arg \in SubjectArgs :
        Return("get_detailed_food_items", arg, get_detailed_food_items(data, arg))

Hei2015 ==
    \E arg \in SubjectArgs :
        Return("calculate_hei_2015", arg, calculate_hei_2015(data, arg))

Next ==
    \/ NutrientSummary
    \/ FoodGroupsSummary
    \/ SupplementSummary
    \/ MealSummary
    \/ DetailedFoodItems
    \/ Hei2015

Spec == Init /\ [][Next]_vars

-----------------------------------------------------------------------------
(* Two callers inside the analyzer's methods at the same time: each call   *)
(* in the steps of its method, the steps of the two interleaved            *)

\* the method op applied to a store
Apply(op, store, arg) ==
    CASE op = "get_nutrient_summary" -> get_nutrient_summary(store, arg)
      [] op = "get_food_groups_summary" -> get_food_groups_summary(store, arg)
      [] op = "get_supplement_summary" -> get_supplement_summary(store, arg)
      [] op = "get_meal_summary" -> get_meal_summary(store, arg)
      [] op = "get_detailed_food_items" -> get_detailed_food_items(store, arg)
      [] op = "calculate_hei_2015" -> calculate_hei_2015(store, arg)

Methods ==
    {"get_nutrient_summary", "get_food_groups_summary", "get_supplement_summary",
     "get_meal_summary", "get_detailed_food_items", "calculate_hei_2015"}

\* the key of self.data a method looks up
TableRead(op) ==
    CASE op \in {"get_nutrient_summary", "get_food_groups_summary", "calculate_hei_2015"} -> Totals
      [] op \in {"get_meal_summary", "get_detailed_food_items"} -> Items
      [] op = "get_supplement_summary" -> INS

\* the arguments of the concurrent callers
ConcurrentArgs == {None, List(<<"u1">>)}

\* the frame the local df of a call denotes now
Local(c) == IF calls[c].shared THEN data[TableRead(calls[c].op)] ELSE calls[c].df

\* the rest of a method on its local df, the filter stage behind it
RunOn(op, frame) == Apply(op, (TableRead(op) :> frame), None)

Done(call, r) == [call EXCEPT !.pc = "done", !.exc = r.exc, !.out = r.out]

\* `if 'X' in self.data: df = self.data['X']; if subjects: df = df[...]`,
\* or the return of an empty frame when the key is absent
Enter(c) ==
    /\ calls[c].pc = "idle"
    /\ \E op \in Methods, arg \in ConcurrentArgs :
          LET call == [Idle EXCEPT !.op = op, !.arg = arg]
          IN  calls' = [calls EXCEPT ![c] =
                  IF TableRead(op) \notin DOMAIN data THEN Done(call, Ok(EmptyFrame))
                  ELSE IF Truthy(arg)
                  THEN [call EXCEPT !.pc = "filtered",
                                    !.df = IsIn(data[TableRead(op)], arg.ids)]
                  ELSE [call EXCEPT !.pc = "filtered", !.shared = TRUE]]
    /\ UNCHANGED <<dir, data, subjects, loaded, ret, ui>>

\* get_meal_summary: df['Meal'] = df['Occ_Name'].astype(str).map(meal_names)
AssignMeal(c) ==
    /\ calls[c].pc = "filtered" /\ calls[c].op = "get_meal_summary"
    /\ IF ~HasColumn(Local(c), "Occ_Name")
       THEN /\ calls' = [calls EXCEPT ![c] = Done(@, Raise("KeyError"))]
            /\ UNCHANGED data
       ELSE LET mealed == Assign(Local(c), "Meal", LAMBDA v : MealLabel(v["Occ_Name"]))
            IN  IF calls[c].shared
                THEN /\ data' = [data EXCEPT ![Items] = mealed]
                     /\ calls' = [calls EXCEPT ![c].pc = "mealed"]
                ELSE /\ calls' = [calls EXCEPT ![c].pc = "mealed", ![c].df = mealed]
                     /\ UNCHANGED data
    /\ UNCHANGED <<dir, subjects, loaded, ret, ui>>

\* the rest of the method: selection, labels, aggregation, return
Finish(c) ==
    /\ \/ calls[c].pc = "filtered" /\ calls[c].op # "get_meal_summary"
       \/ calls[c].pc = "mealed"
    /\ calls' = [calls EXCEPT ![c] = Done(@, RunOn(calls[c].op, Local(c)))]
    /\ UNCHANGED <<dir, data, subjects, loaded, ret, ui>>

\* the directories the concurrent callers work on: one Totals file and an
\* Items file of any content
InitConcurrent == Init /\ DOMAIN dir = {fTotalsA, fItems} /\ dir[fTotalsA] = TotalsOfA

NextConcurrent == \E c \in Callers : Enter(c) \/ AssignMeal(c) \/ Finish(c)

SpecConcurrent == InitConcurrent /\ [][NextConcurrent]_vars

-----------------------------------------------------------------------------
(* load_data called again on the analyzer after the directory changed      *)

\* what the directory may hold at a later load: any of four known files
LaterDirectories ==
    {Restrict(FixedFiles, S) : S \in SUBSET {fTotalsA, fTotalsB, fItems, fNotes}}

\* analyzer.load_data(): the loop runs over the directory as it is now, on
\* the data and subjects the analyzer already has
LoadData ==
    \E d \in LaterDirectories :
        \E order \in Perms(DOMAIN d) :
            LET st == LoadAll([data |-> data, subjects |-> subjects], d, order)
            IN  /\ dir' = d
                /\ data' = st.data
                /\ subjects' = st.subjects
                /\ loaded' = st
                /\ ret' = [op |-> "load_data", arg |-> None, exc |-> "", out |-> EmptyFrame]
                /\ UNCHANGED <<calls, ui>>

SpecReload == Init /\ [][LoadData]_vars

-----------------------------------------------------------------------------
(* main(): one run of the Streamlit script, in src/src/asa24_analyzer.py   *)
(* and in src/streamlit_app.py.  The directory of the run exists; ui holds *)
(* the application, the point the run has reached, the value of the        *)
(* subject multiselect, the page of the radio and what the run has shown.  *)

Apps == {"asa24_analyzer", "streamlit_app"}

\* the options of the navigation radio
Pages(app) ==
    {"Nutrient Summary", "Food Groups", "Supplements", "Meals", "Food Items",
     "Healthy Eating Index"} \cup (IF app = "streamlit_app" THEN {"About"} ELSE {})

\* the call analyzer.<method>(selected_subjects) of each page; the About page
\* makes none
PageCall(page) ==
    CASE page = "Nutrient Summary" -> "get_nutrient_summary"
      [] page = "Food Groups" -> "get_food_groups_summary"
      [] page = "Supplements" -> "get_supplement_summary"
      [] page = "Meals" -> "get_meal_summary"
      [] page = "Food Items" -> "get_detailed_food_items"
      [] page = "Healthy Eating Index" -> "calculate_hei_2015"
      [] page = "About" -> ""

\* the methods class ASA24Analyzer has in each file: in asa24_analyzer.py
\* def calculate_hei_2015 stands inside the body of show_glossary
ClassMethods(app) ==
    IF app = "asa24_analyzer" THEN Methods \ {"calculate_hei_2015"} ELSE Methods

\* the subject ids of the model in sorted order
SubjectOrder == <<"u1", "u2", "u3", "u4", "u5", "u7", "u9">>

\* sorted(list(analyzer.subjects)), and the multiselect's value for a chosen
\* subset of it
Sorted(S) == SelectSeq(SubjectOrder, LAMBDA x : x \in S)

\* the data directories a run is started on
MainDirectories ==
    {Restrict(FixedFiles, S) : S \in SUBSET {fTotalsA, fItems, fIns, fNotes}}

StartOfRun(app) == [app |-> app, pc |-> "start", selected |-> <<>>, page |-> "", shown |-> ""]

NoAnalyzer == [op |-> "main", arg |-> None, exc |-> "", out |-> EmptyFrame]

InitMain ==
    /\ dir \in MainDirectories
    /\ data = <<>>
    /\ subjects = {}
    /\ loaded = [data |-> <<>>, subjects |-> {}]
    /\ ret = NoAnalyzer
    /\ calls = NoCalls
    /\ \E app \in Apps : ui = StartOfRun(app)

\* up to analyzer = ASA24Analyzer(data_dir); asa24_analyzer.py first stops
\* with an error when the directory has no .csv file
Initialize ==
    /\ ui.pc = "start"
    /\ IF ui.app = "asa24_analyzer" /\ ~\E f \in DOMAIN dir : EndsWith(f, DotCsv)
       THEN /\ ui' = [ui EXCEPT !.pc = "stopped", !.shown = "error"]
            /\ UNCHANGED <<data, subjects, loaded, ret>>
       ELSE \E order \in Perms(DOMAIN dir) :
                LET st == Construct(dir, order)
                IN  /\ data' = st.data
                    /\ subjects' = st.subjects
                    /\ loaded' = st
                    /\ ret' = [op |-> "__init__", arg |-> None, exc |-> "", out |-> EmptyFrame]
                    /\ ui' = [ui EXCEPT !.pc = "select"]
    /\ UNCHANGED <<dir, calls>>

\* selected_subjects = st.sidebar.multiselect(..., available_subjects, ...)
SelectSubjects ==
    /\ ui.pc = "select"
    /\ \E S \in SUBSET subjects : ui' = [ui EXCEPT !.pc = "guard", !.selected = Sorted(S)]
    /\ UNCHANGED <<dir, data, subjects, loaded, ret, calls>>

\* mutant: the run goes on whatever the selection
NoSelection_Never(selected) == FALSE

\* not selected_subjects
NoSelection(selected) == selected = <<>>

\* if not selected_subjects: st.warning(...); return
Guard ==
    /\ ui.pc = "guard"
    /\ ui' = IF NoSelection(ui.selected)
             THEN [ui EXCEPT !.pc = "stopped", !.shown = "warning"]
             ELSE [ui EXCEPT !.pc = "navigate"]
    /\ UNCHANGED <<dir, data, subjects, loaded, ret, calls>>

\* page = st.sidebar.radio(...) and the branch of the page: its call of the
\* analyzer, then the table or the exception Streamlit shows
RenderPage ==
    /\ ui.pc = "navigate"
    /\ \E page \in Pages(ui.app) :
          LET op == PageCall(page)
              arg == List(ui.selected)
          IN  IF op = ""
              THEN /\ ui' = [ui EXCEPT !.pc = "rendered", !.page = page, !.shown = "text"]
                   /\ UNCHANGED <<data, ret>>
              ELSE IF op \notin ClassMethods(ui.app)
              THEN /\ ui' = [ui EXCEPT !.pc = "rendered", !.page = page, !.shown = "exception"]
                   /\ ret' = [op |-> op, arg |-> arg, exc |-> "AttributeError", out |-> EmptyFrame]
                   /\ UNCHANGED data
              ELSE LET r == Apply(op, data, arg)
                   IN  /\ ui' = [ui EXCEPT !.pc = "rendered", !.page = page,
                                           !.shown = IF r.exc = "" THEN "table" ELSE "exception"]
                       /\ ret' = [op |-> op, arg |-> arg, exc |-> r.exc, out |-> r.out]
                       /\ data' = r.data
    /\ UNCHANGED <<dir, subjects, loaded, calls>>

\* a widget is touched: Streamlit runs the script again from the top, with a
\* new analyzer
Rerun ==
    /\ ui.pc \in {"stopped", "rendered"}
    /\ ui' = StartOfRun(ui.app)
    /\ data' = <<>>
    /\ subjects' = {}
    /\ loaded' = [data |-> <<>>, subjects |-> {}]
    /\ ret' = NoAnalyzer
    /\ UNCHANGED <<dir, calls>>

NextMain == Initialize \/ SelectSubjects \/ Guard \/ RenderPage \/ Rerun

SpecMain == InitMain /\ [][NextMain]_vars

-----------------------------------------------------------------------------
(* Shared vocabulary of the properties                                     *)

Returned(op) == ret.op = op /\ ret.exc = ""

\* the labels of the recall numbers that occur in the model, written out
ExpectedVisit(recall) ==
    CASE recall = 1 -> "Visit 1" [] recall = 2 -> "Visit 2" [] recall = 3 -> "Visit 3"
      [] recall = 10 -> "Visit 10" [] recall = 12 -> "Visit 12"

\* the labels of the meal-occasion codes, written out; "nan" is the missing label
ExpectedMeal(occ) ==
    CASE occ = 1 -> "Breakfast" [] occ = 2 -> "Morning Snack" [] occ = 3 -> "Lunch"
      [] occ = 4 -> "Afternoon Snack" [] occ = 5 -> "Dinner" [] occ = 6 -> "Evening Snack"
      [] occ = 7 -> "Late Evening Snack" [] occ = 8 -> "Other Time" [] OTHER -> "nan"

\* the caller asked for an allowlist: a list naming at least one subject
Allowlist(arg) == arg # None /\ arg # List(<<>>)

\* the positions of the stored rows a call with argument arg works on
Kept(frame, arg) ==
    {i \in DOMAIN frame.rows :
        Allowlist(arg) => \E j \in DOMAIN arg.ids : arg.ids[j] = frame.rows[i].val["UserName"]}

\* the stored positions the rows of the last result stem from, in result order
Sources == [i \in DOMAIN ret.out.rows |-> ret.out.rows[i].src]

Increasing(s) == \A i, j \in DOMAIN s : i < j => s[i] < s[j]

TotalsOps == {"get_nutrient_summary", "get_food_groups_summary", "calculate_hei_2015"}

ItemsOps == {"get_meal_summary", "get_detailed_food_items"}

\* the table an operation reads
TableOf(op) ==
    IF op \in TotalsOps THEN Totals ELSE IF op \in ItemsOps THEN Items ELSE INS

-----------------------------------------------------------------------------
(* C1: after any sequence of projector and scoring calls, with any subject *)
(* argument, every table of analyzer.data has exactly the columns and rows *)
(* it had right after load_data, and analyzer.subjects is unchanged.       *)
C1_StoreNeverMutated == data = loaded.data /\ subjects = loaded.subjects

-----------------------------------------------------------------------------
(* C2: for every Totals row with KCAL > 0 and non-negative other measures  *)
(* (zeros included), each of the 13 component scores is a defined number   *)
(* in [0, max] (max 5 for six components, 10 for the other seven) and      *)
(* Total HEI Score lies in [0, 100].                                       *)
FivePointComponents ==
    {"Total Fruits", "Whole Fruits", "Total Vegetables", "Greens and Beans",
     "Total Protein Foods", "Seafood and Plant Proteins"}

PointsOf(c) == IF c \in FivePointComponents THEN 5 ELSE 10

InRange(x, hi) == IsFinite(x) /\ QLe(Int2Q(0), x) /\ QLe(x, Int2Q(hi))

\* KCAL > 0 and no measure the engine reads is negative or missing
ValidTotalsRow(v) ==
    /\ IsFinite(v["KCAL"]) /\ v["KCAL"].n > 0
    /\ \A c \in DOMAIN v :
          c \notin {"UserName", "RecallNo", "IntakeStartDateTime"}
              => IsFinite(v[c]) /\ v[c].n >= 0

C2_ScoresInRange ==
    Returned("calculate_hei_2015") /\ Totals \in DOMAIN data =>
        \A i \in DOMAIN ret.out.rows :
            LET r == ret.out.rows[i]
            IN  ValidTotalsRow(data[Totals].rows[r.src].val) =>
                    /\ \A c \in Range(HeiComponents) : InRange(r.val[c], PointsOf(c))
                    /\ InRange(r.val["Total HEI Score"], 100)

-----------------------------------------------------------------------------
(* C3: after construction on any directory, analyzer.subjects equals the   *)
(* union of the distinct UserName values of the tables held in             *)
(* analyzer.data that have a UserName column.                              *)
SubjectsOfHeld ==
    UNION {Unique(data[k], "UserName") : k \in {n \in DOMAIN data : HasColumn(data[n], "UserName")}}

C3_SubjectsAreUnionOfHeld == ret.op = "__init__" => subjects = SubjectsOfHeld

-----------------------------------------------------------------------------
(* C4: when the table an operation reads is absent from the store (Totals  *)
(* for the nutrient and food-group summaries and the HEI scores, Items for *)
(* the meal summary and the food items, INS for the supplements), the      *)
(* operation returns an empty result with zero rows and raises nothing,    *)
(* for any subject argument.                                               *)
C4_AbsentTableGivesEmpty ==
    ret.op # "__init__" /\ TableOf(ret.op) \notin DOMAIN data =>
        ret.exc = "" /\ ret.out.rows = <<>> /\ ret.out.columns = <<>>

\* the HEI scores were asked, with a subject list, of a store without Totals
C4_Witness ==
    /\ ret.op = "calculate_hei_2015" /\ Allowlist(ret.arg)
    /\ Totals \notin DOMAIN data /\ Items \in DOMAIN data

-----------------------------------------------------------------------------
(* C5: for a non-empty allowlist S the rows produced by the nutrient,      *)
(* food-group, supplement and food-item projectors are exactly the stored  *)
(* rows whose UserName is in S, each once and in stored order; an          *)
(* allowlist that matches no row gives zero rows and no exception, also    *)
(* for the meal summary and the HEI scores.  Stated for tables that have   *)
(* the columns the operation reads.                                        *)
RowOps ==
    {"get_nutrient_summary", "get_food_groups_summary", "get_supplement_summary",
     "get_detailed_food_items"}

\* the frame has every column the operation reads
HasColumnsFor(op, frame) ==
    LET has(cols) == \A i \in DOMAIN cols : \E j \in DOMAIN frame.columns : frame.columns[j] = cols[i]
    IN  CASE op = "get_nutrient_summary" -> has(IdCols \o DictValues(key_nutrients))
          [] op = "get_food_groups_summary" -> has(IdCols \o DictValues(food_groups))
          [] op = "get_supplement_summary" -> has(InsCols)
          [] op = "get_detailed_food_items" -> has(FoodItemCols)
          [] op = "get_meal_summary" -> has(ItemsCols)
          [] op = "calculate_hei_2015" ->
                 /\ has(HeiAdequacyCols \o HeiModerationCols)
                 /\ has(<<"SFA">>) \/ has(<<"SFAT">>) \/ has(FattyAcidFields)

\* the cells a result row shares with the stored row are the stored cells
SameCells(r, stored) ==
    \A c \in DOMAIN r.val :
        c \in DOMAIN stored.val /\ c # "IntakeStartDateTime" => r.val[c] = stored.val[c]

C5_AllowlistSelectsRows ==
    /\ ret.op # "__init__" /\ Allowlist(ret.arg)
    /\ TableOf(ret.op) \in DOMAIN data
    /\ HasColumnsFor(ret.op, data[TableOf(ret.op)])
    => LET stored == data[TableOf(ret.op)]
           members == Kept(stored, ret.arg)
       IN  /\ ret.exc = ""
           /\ members = {} => ret.out.rows = <<>>
           /\ ret.op \in RowOps =>
                 /\ Increasing(Sources)
                 /\ Range(Sources) = members
                 /\ \A i \in DOMAIN ret.out.rows :
                       SameCells(ret.out.rows[i], stored.rows[Sources[i]])

\* the food items of a list of subjects: some stored rows kept, some dropped
C5_Witness ==
    /\ Returned("get_detailed_food_items") /\ Allowlist(ret.arg)
    /\ Len(ret.out.rows) > 0
    /\ Len(ret.out.rows) < Len(data[Items].rows)

-----------------------------------------------------------------------------
(* C6: with subjects absent (None) or an empty allowlist the four          *)
(* row-preserving projectors and the HEI scores filter nothing: the        *)
(* result covers every row of the stored table, in stored order.           *)
C6_NoFilterKeepsAllRows ==
    /\ ret.op \in RowOps \cup {"calculate_hei_2015"} /\ ~Allowlist(ret.arg)
    /\ TableOf(ret.op) \in DOMAIN data
    /\ HasColumnsFor(ret.op, data[TableOf(ret.op)])
    => /\ ret.exc = ""
       /\ Sources = [i \in 1..Len(data[TableOf(ret.op)].rows) |-> i]

\* HEI scores asked with an empty list of a table of two subjects
C6_Witness ==
    /\ Returned("calculate_hei_2015") /\ ret.arg = List(<<>>)
    /\ Len(ret.out.rows) = 2
    /\ ret.out.rows[1].key[1] # ret.out.rows[2].key[1]

-----------------------------------------------------------------------------
(* C7: the nutrient and food-group summaries relabel every selected column *)
(* to its display name: for each code of the mapping the output has a      *)
(* column named by the code's label holding the stored values of the code, *)
(* and no output column is still named by the raw code.                    *)
MappingOf(op) == IF op = "get_nutrient_summary" THEN key_nutrients ELSE food_groups

C7_ColumnsRelabelled ==
    /\ ret.op \in {"get_nutrient_summary", "get_food_groups_summary"}
    /\ ret.exc = "" /\ Totals \in DOMAIN data
    => \A k \in DOMAIN MappingOf(ret.op) :
          LET label == MappingOf(ret.op)[k][1]
              code == MappingOf(ret.op)[k][2]
          IN  /\ \E j \in DOMAIN ret.out.columns : ret.out.columns[j] = label
              /\ \A j \in DOMAIN ret.out.columns : ret.out.columns[j] # code
              /\ \A i \in DOMAIN ret.out.rows :
                    ret.out.rows[i].val[label] = data[Totals].rows[Sources[i]].val[code]

-----------------------------------------------------------------------------
-----------------------------------------------------------------------------
(* C9: in every result of the five projectors and of the HEI scores, each  *)
(* row's Visit is the literal 'Visit ' followed by the unpadded decimal    *)
(* string of the row's RecallNo; distinct recall numbers give distinct     *)
(* labels.                                                                 *)

\* where a result row holds its Visit and its RecallNo
VisitOf(r) == IF "Visit" \in DOMAIN r.val THEN r.val["Visit"] ELSE r.key[2]

RecallOf(r) ==
    IF "RecallNo" \in DOMAIN r.val THEN r.val["RecallNo"]
    ELSE data[Totals].rows[r.src].val["RecallNo"]

C9_VisitIsRecallLabel ==
    ret.op # "__init__" /\ ret.exc = "" =>
        /\ \A i \in DOMAIN ret.out.rows :
              VisitOf(ret.out.rows[i]) = ExpectedVisit(RecallOf(ret.out.rows[i]))
        /\ \A i, j \in DOMAIN ret.out.rows :
              RecallOf(ret.out.rows[i]) # RecallOf(ret.out.rows[j])
                  => VisitOf(ret.out.rows[i]) # VisitOf(ret.out.rows[j])

\* a supplement summary with recalls 1 and 10 of one subject
C9_Witness ==
    /\ Returned("get_supplement_summary")
    /\ \E i, j \in DOMAIN ret.out.rows :
          /\ ret.out.rows[i].val["RecallNo"] = 1
          /\ ret.out.rows[j].val["RecallNo"] = 10
          /\ ret.out.rows[j].val["Visit"] = "Visit 10"

-----------------------------------------------------------------------------
(* C10: the nutrient summary, the food-group summary and the HEI scores    *)
(* output exactly one row per (filtered) Totals row; two Totals rows with  *)
(* the same (UserName, RecallNo) both appear, under the same               *)
(* (UserName, Visit) key.                                                  *)
SameRecall(a, b) ==
    a.val["UserName"] = b.val["UserName"] /\ a.val["RecallNo"] = b.val["RecallNo"]

C10_OneRowPerTotalsRow ==
    ret.op \in TotalsOps /\ ret.exc = "" /\ Totals \in DOMAIN data =>
        LET stored == data[Totals]
            kept == Kept(stored, ret.arg)
        IN  /\ Len(ret.out.rows) = Cardinality(kept)
            /\ \A a, b \in kept :
                  a < b /\ SameRecall(stored.rows[a], stored.rows[b]) =>
                      \E i, j \in DOMAIN ret.out.rows :
                          /\ i < j
                          /\ ret.out.rows[i].src = a /\ ret.out.rows[j].src = b
                          /\ ret.out.rows[i].key = ret.out.rows[j].key

\* HEI scores of two Totals rows of subject u1, recall 1
C10_Witness ==
    /\ Returned("calculate_hei_2015") /\ Totals \in DOMAIN data
    /\ Len(ret.out.rows) = 2
    /\ SameRecall(data[Totals].rows[1], data[Totals].rows[2])
    /\ ret.out.rows[1].key = ret.out.rows[2].key

-----------------------------------------------------------------------------
(* C11: the meal summary has one row per distinct (UserName, RecallNo,     *)
(* Meal label) group of the filtered Items rows, indexed by (UserName,     *)
(* Visit, Meal); its 'Number of Items' is the number of Items rows of the  *)
(* group, and Calories, Protein (g), Fat (g), Carbs (g) are the sums of    *)
(* KCAL, PROT, TFAT, CARB over the group rounded to one decimal place.     *)
(* Groups are those of the rows whose occasion code has a label.           *)

\* the exact sum of column c over the stored rows at the positions P
RECURSIVE SumAt(_, _, _)
SumAt(rows, P, c) ==
    IF P = {} THEN Int2Q(0)
    ELSE LET i == CHOOSE i \in P : TRUE
         IN  QAdd(rows[i].val[c], SumAt(rows, P \ {i}, c))

\* x has one decimal place and lies within half a tenth of exact
RoundedOf(x, exact) ==
    /\ IsFinite(x) /\ (10 * x.n) % x.d = 0
    /\ QLe(QSub(x, exact), Rat(1, 20)) /\ QLe(QSub(exact, x), Rat(1, 20))

GroupKeyOf(v) == <<v["UserName"], v["RecallNo"], ExpectedMeal(v["Occ_Name"])>>

C11_MealRowsAggregateGroups ==
    /\ ret.op = "get_meal_summary" /\ Items \in DOMAIN data
    /\ HasColumnsFor(ret.op, data[Items])
    => LET stored == data[Items].rows
           labelled == {i \in Kept(data[Items], ret.arg) :
                           ExpectedMeal(stored[i].val["Occ_Name"]) # "nan"}
           keys == {GroupKeyOf(stored[i].val) : i \in labelled}
           group(k) == {i \in labelled : GroupKeyOf(stored[i].val) = k}
       IN  /\ ret.exc = ""
           /\ ret.out.index = <<"UserName", "Visit", "Meal">>
           /\ Len(ret.out.rows) = Cardinality(keys)
           /\ \A k \in keys : \E j \in DOMAIN ret.out.rows :
                 LET r == ret.out.rows[j]
                 IN  /\ r.key = <<k[1], ExpectedVisit(k[2]), k[3]>>
                     /\ r.val["Number of Items"] = Int2Q(Cardinality(group(k)))
                     /\ RoundedOf(r.val["Calories"], SumAt(stored, group(k), "KCAL"))
                     /\ RoundedOf(r.val["Protein (g)"], SumAt(stored, group(k), "PROT"))
                     /\ RoundedOf(r.val["Fat (g)"], SumAt(stored, group(k), "TFAT"))
                     /\ RoundedOf(r.val["Carbs (g)"], SumAt(stored, group(k), "CARB"))

-----------------------------------------------------------------------------
(* C12: for every (UserName, RecallNo) of the filtered Items rows, the     *)
(* 'Number of Items' of the meal-summary rows of that subject and visit    *)
(* add up to the number of Items rows with that (UserName, RecallNo),      *)
(* whatever the occasion codes and FoodNum cells of the rows are.          *)

\* the sum of 'Number of Items' over the result rows at the positions P
RECURSIVE ItemsCounted(_)
ItemsCounted(P) ==
    IF P = {} THEN Int2Q(0)
    ELSE LET j == CHOOSE j \in P : TRUE
         IN  QAdd(ret.out.rows[j].val["Number of Items"], ItemsCounted(P \ {j}))

C12_ItemCountsAddUp ==
    /\ ret.op = "get_meal_summary" /\ Items \in DOMAIN data
    /\ HasColumnsFor(ret.op, data[Items])
    => LET stored == data[Items].rows
           members == Kept(data[Items], ret.arg)
       IN  /\ ret.exc = ""
           /\ \A i \in members :
                 LET user == stored[i].val["UserName"]
                     recall == stored[i].val["RecallNo"]
                     same == {m \in members : /\ stored[m].val["UserName"] = user
                                               /\ stored[m].val["RecallNo"] = recall}
                     outs == {j \in DOMAIN ret.out.rows :
                                 /\ ret.out.rows[j].key[1] = user
                                 /\ ret.out.rows[j].val["RecallNo"] = recall}
                 IN  ItemsCounted(outs) = Int2Q(Cardinality(same))

-----------------------------------------------------------------------------
(* C13: get_detailed_food_items aggregates nothing: one output row per     *)
(* filtered Items row, in stored order, with the columns UserName,         *)
(* RecallNo, Occ_Name, Food_Description, FoodAmt, KCAL, PROT, TFAT, CARB,  *)
(* Meal, Visit; Meal is the label of the code for codes 1-8 and missing    *)
(* for any other code, whose row is kept and raises nothing.               *)
C13_FoodItemsRowPerRow ==
    /\ ret.op = "get_detailed_food_items" /\ Items \in DOMAIN data
    /\ HasColumnsFor(ret.op, data[Items])
    => LET stored == data[Items].rows
       IN  /\ ret.exc = ""
           /\ ret.out.columns =
                 <<"UserName", "RecallNo", "Occ_Name", "Food_Description", "FoodAmt",
                   "KCAL", "PROT", "TFAT", "CARB", "Meal", "Visit">>
           /\ Increasing(Sources)
           /\ Range(Sources) = Kept(data[Items], ret.arg)
           /\ \A i \in DOMAIN ret.out.rows :
                 LET r == ret.out.rows[i]
                     from == stored[r.src].val
                 IN  /\ DOMAIN r.val = Range(ret.out.columns)
                     /\ \A c \in DOMAIN r.val \ {"Meal", "Visit"} : r.val[c] = from[c]
                     /\ r.val["Meal"] = ExpectedMeal(from["Occ_Name"])
                     /\ r.val["Visit"] = ExpectedVisit(from["RecallNo"])

\* a breakfast item and an item of occasion code 9, both listed
C13_Witness ==
    /\ Returned("get_detailed_food_items")
    /\ Len(ret.out.rows) = 2
    /\ \E i, j \in DOMAIN ret.out.rows :
          /\ ret.out.rows[i].val["Occ_Name"] = 9 /\ ret.out.rows[i].val["Meal"] = "nan"
          /\ ret.out.rows[j].val["Occ_Name"] = 1 /\ ret.out.rows[j].val["Meal"] = "Breakfast"

-----------------------------------------------------------------------------
(* C14: in every row of the HEI scores, 'Total HEI Score' equals the sum   *)
(* of the row's 13 component scores and of nothing else.                   *)

\* the 13 components, written out
ThirteenComponents ==
    <<"Total Fruits", "Whole Fruits", "Total Vegetables", "Greens and Beans",
      "Whole Grains", "Dairy", "Total Protein Foods", "Seafood and Plant Proteins",
      "Fatty Acids", "Refined Grains", "Sodium", "Added Sugars", "Saturated Fats">>

\* the arithmetic sum of the cells of v named by cols (undefined cells make
\* the sum undefined)
RECURSIVE PlainSum(_, _)
PlainSum(v, cols) ==
    IF cols = <<>> THEN Int2Q(0) ELSE QAdd(v[Head(cols)], PlainSum(v, Tail(cols)))

C14_TotalIsSumOfThirteen ==
    Returned("calculate_hei_2015") =>
        \A i \in DOMAIN ret.out.rows :
            LET v == ret.out.rows[i].val
            IN  /\ DOMAIN v = Range(ThirteenComponents) \cup {"Total HEI Score"}
                /\ ~IsNaN(PlainSum(v, ThirteenComponents))
                /\ v["Total HEI Score"] = PlainSum(v, ThirteenComponents)

-----------------------------------------------------------------------------
(* C15: when the Totals table lacks F_JUICE, calculate_hei_2015 raises     *)
(* nothing and scores Whole Fruits from F_TOTAL alone; when it lacks       *)
(* V_LEGUMES, it raises nothing and scores Greens and Beans from V_DRKGR   *)
(* alone.                                                                  *)

\* the columns the scores need besides the two optional ones
HeiMandatory ==
    {"UserName", "RecallNo", "KCAL", "F_TOTAL", "V_TOTAL", "V_DRKGR", "G_WHOLE",
     "D_TOTAL", "PF_TOTAL", "PF_SEAFD_HI", "PF_NUTSDS", "G_REFINED", "SODI",
     "ADD_SUGARS", "MUFA", "PUFA", "SFA"}

\* clamp(amount per 1000 kcal / standard * 5, 0, 5)
FivePointScore(amount, kcal, standard) ==
    LET density == QDiv(QMul(amount, Int2Q(1000)), kcal)
        raw == QMul(QDiv(density, standard), Int2Q(5))
    IN  IF QLt(raw, Int2Q(0)) THEN Int2Q(0) ELSE IF QLt(Int2Q(5), raw) THEN Int2Q(5) ELSE raw

C15_OptionalColumnsFallBack ==
    /\ ret.op = "calculate_hei_2015" /\ Totals \in DOMAIN data
    /\ HeiMandatory \subseteq Range(data[Totals].columns)
    /\ {"F_JUICE", "V_LEGUMES"} \ Range(data[Totals].columns) # {}
    => LET cols == Range(data[Totals].columns)
       IN  /\ ret.exc = ""
           /\ \A i \in DOMAIN ret.out.rows :
                 LET from == data[Totals].rows[ret.out.rows[i].src].val
                     v == ret.out.rows[i].val
                 IN  QLt(Int2Q(0), from["KCAL"]) =>
                       /\ "F_JUICE" \notin cols =>
                             v["Whole Fruits"] =
                                 FivePointScore(from["F_TOTAL"], from["KCAL"], Rat(4, 10))
                       /\ "V_LEGUMES" \notin cols =>
                             v["Greens and Beans"] =
                                 FivePointScore(from["V_DRKGR"], from["KCAL"], Rat(2, 10))

-----------------------------------------------------------------------------
(* C16: for a Totals table with none of SFA, SFAT, S040..S180 and every    *)
(* other column the scores read, KCAL > 0, calculate_hei_2015 completes    *)
(* without an exception and every row's Saturated Fats score is 5.0.       *)
C16_SaturatedFatDefaultsToFive ==
    /\ ret.op = "calculate_hei_2015" /\ Totals \in DOMAIN data
    /\ (HeiMandatory \ {"MUFA", "PUFA", "SFA"}) \cup {"F_JUICE", "V_LEGUMES"}
           \subseteq Range(data[Totals].columns)
    /\ Range(data[Totals].columns)
           \cap {"SFA", "SFAT", "S040", "S060", "S080", "S100", "S120", "S140", "S160", "S180"} = {}
    /\ \A i \in DOMAIN data[Totals].rows : QLt(Int2Q(0), data[Totals].rows[i].val["KCAL"])
    => /\ ret.exc = ""
       /\ Len(ret.out.rows) = Cardinality(Kept(data[Totals], ret.arg))
       /\ \A i \in DOMAIN ret.out.rows : ret.out.rows[i].val["Saturated Fats"] = Int2Q(5)

-----------------------------------------------------------------------------
(* C17: the nutrient mapping is one-to-one (no two codes share a label, no *)
(* two labels share a code), and taking the column names of a nutrient     *)
(* summary back through the label-to-code direction of the mapping gives   *)
(* exactly the original column codes KCAL, PROT, ..., MAGNESIUM: none      *)
(* lost, merged or altered.                                                *)

\* the column codes of the nutrient summary, written out
NutrientCodes ==
    <<"KCAL", "PROT", "TFAT", "CARB", "FIBE", "SUGR", "CALC", "IRON", "VC", "VITD",
      "VARA", "VB12", "FOLA", "SODI", "POTA", "OMEGA3", "CHOLINE", "IODINE", "ZINC",
      "DHA", "EPA", "ALA", "SELENIUM", "MAGNESIUM">>

\* a column name taken back to its code: a label gives its code, any other
\* name stays
BackToCode(name) ==
    IF \E k \in DOMAIN key_nutrients : key_nutrients[k][1] = name
    THEN key_nutrients[CHOOSE k \in DOMAIN key_nutrients : key_nutrients[k][1] = name][2]
    ELSE name

C17_MappingRoundTrips ==
    /\ \A i, j \in DOMAIN key_nutrients :
          i # j => /\ key_nutrients[i][1] # key_nutrients[j][1]
                   /\ key_nutrients[i][2] # key_nutrients[j][2]
    /\ Returned("get_nutrient_summary") /\ ret.out.columns # <<>> =>
          LET named == SelectSeq(ret.out.columns,
                                 LAMBDA c : c \notin {"RecallNo", "IntakeStartDateTime"})
          IN  [i \in DOMAIN named |-> BackToCode(named[i])] = NutrientCodes

\* a nutrient summary of two recalls, its columns taken back
C17_Witness ==
    /\ Returned("get_nutrient_summary") /\ Len(ret.out.rows) = 2
    /\ Len(ret.out.columns) = Len(NutrientCodes) + 2
    /\ BackToCode(ret.out.columns[Len(ret.out.columns)]) = "MAGNESIUM"

-----------------------------------------------------------------------------
(* C18: for every row of a nutrient summary, a food-group summary or the   *)
(* HEI scores there is exactly one Totals row with that row's subject and  *)
(* recall number, and no Totals row is emitted more than once.             *)
C18_KeyTracesToOneRow ==
    /\ ret.op \in {"get_nutrient_summary", "get_food_groups_summary", "calculate_hei_2015"}
    /\ ret.exc = "" /\ Totals \in DOMAIN data
    => LET stored == data[Totals].rows
       IN  /\ \A i \in DOMAIN ret.out.rows :
                 Cardinality({m \in DOMAIN stored :
                                 /\ stored[m].val["UserName"] = ret.out.rows[i].key[1]
                                 /\ ExpectedVisit(stored[m].val["RecallNo"])
                                        = ret.out.rows[i].key[2]}) = 1
           /\ \A i, j \in DOMAIN ret.out.rows : i # j => Sources[i] # Sources[j]

-----------------------------------------------------------------------------
(* C19: for any two summary or scoring calls on one loaded analyzer run    *)
(* concurrently, in any interleaving of their steps, neither call writes   *)
(* to the shared store and each returns what it returns when run alone.    *)

\* the outcome of the call when no other call runs
Alone(call) == Apply(call.op, loaded.data, call.arg)

SameAsAlone(c) ==
    calls[c].pc = "done" =>
        calls[c].exc = Alone(calls[c]).exc /\ calls[c].out = Alone(calls[c]).out

C19_ConcurrentCallsArePure ==
    /\ data = loaded.data
    /\ \A c \in Callers : SameAsAlone(c)

-----------------------------------------------------------------------------
(* C20: each load_data recomputes the store and the subject index from the *)
(* directory as it is at that moment: after a later load, analyzer.data    *)
(* holds only tables of files now in the directory and analyzer.subjects   *)
(* only ids present in the files now loaded; nothing is carried over.      *)

\* the .csv files the directory holds now
CsvNow == {f \in DOMAIN dir : EndsWith(f, DotCsv)}

C20_ReloadStartsAfresh ==
    ret.op = "load_data" =>
        /\ \A k \in DOMAIN data :
              \E f \in CsvNow : CategoryOf(f) = k /\ data[k] = dir[f]
        /\ \A u \in subjects :
              \E f \in CsvNow : \E i \in DOMAIN dir[f].rows :
                  /\ "UserName" \in DOMAIN dir[f].rows[i].val
                  /\ dir[f].rows[i].val["UserName"] = u

-----------------------------------------------------------------------------
(* C22: a summary projector does not tolerate a missing selected column:   *)
(* when the Totals table lacks a column of the nutrient list (OMEGA3, say) *)
(* get_nutrient_summary fails with an error and returns no partial or      *)
(* empty table, and likewise get_food_groups_summary for a missing         *)
(* food-group column; calculate_hei_2015 on a table without MUFA, PUFA and *)
(* SFA falls back to other columns instead.                                *)

\* the column codes of the food-group summary, written out
FoodGroupCodes ==
    <<"F_TOTAL", "F_CITMLB", "F_OTHER", "V_TOTAL", "V_DRKGR", "V_REDOR_TOTAL",
      "G_TOTAL", "G_WHOLE", "G_REFINED", "PF_TOTAL", "PF_MEAT", "PF_POULT",
      "PF_SEAFD_HI", "PF_EGGS", "PF_NUTSDS", "D_TOTAL", "D_MILK", "D_CHEESE",
      "ADD_SUGARS", "OILS">>

\* the stored Totals table lacks one of the codes
Lacks(codes) == Range(codes) \ Range(data[Totals].columns) # {}

C22_MissingColumnRaises ==
    Totals \in DOMAIN data =>
        /\ (ret.op = "get_nutrient_summary" /\ Lacks(NutrientCodes))
              => (ret.exc = "KeyError" /\ ret.out = EmptyFrame)
        /\ (ret.op = "get_food_groups_summary" /\ Lacks(FoodGroupCodes))
              => (ret.exc = "KeyError" /\ ret.out = EmptyFrame)
        /\ ( /\ ret.op = "calculate_hei_2015"
             /\ (HeiMandatory \ {"MUFA", "PUFA", "SFA"}) \cup {"F_JUICE", "V_LEGUMES", "SFAT"}
                    \subseteq Range(data[Totals].columns)
             /\ Lacks(<<"MUFA", "PUFA", "SFA">>) )
              => ret.exc = ""

\* the nutrient summary of an export without OMEGA3, with rows to show
C22_Witness ==
    /\ ret.op = "get_nutrient_summary" /\ ret.exc = "KeyError"
    /\ Totals \in DOMAIN data /\ Len(data[Totals].rows) > 0
    /\ Range(NutrientCodes) \ Range(data[Totals].columns) = {"OMEGA3"}

-----------------------------------------------------------------------------
(* C23: for every Totals row with KCAL > 0 each adequacy score equals      *)
(* clamp(density / standard * max, 0, max), density = measure * 1000 /     *)
(* KCAL, for the eight (measure, standard, max) of the HEI table; the      *)
(* score is non-decreasing in the measure and is max exactly when          *)
(* density >= standard.                                                    *)

\* clamp(x, lo, hi) = max(lo, min(hi, x)) on defined numbers
Clamp(x, lo, hi) == IF QLt(x, lo) THEN lo ELSE IF QLt(hi, x) THEN hi ELSE x

\* (component, measure, standard, max) of the adequacy components for a
\* stored row v
AdequacyTable(v) ==
    << <<"Total Fruits", v["F_TOTAL"], Rat(8, 10), 5>>,
       <<"Whole Fruits", QSub(v["F_TOTAL"], v["F_JUICE"]), Rat(4, 10), 5>>,
       <<"Total Vegetables", v["V_TOTAL"], Rat(11, 10), 5>>,
       <<"Greens and Beans", QAdd(v["V_DRKGR"], v["V_LEGUMES"]), Rat(2, 10), 5>>,
       <<"Whole Grains", v["G_WHOLE"], Rat(15, 10), 10>>,
       <<"Dairy", v["D_TOTAL"], Rat(13, 10), 10>>,
       <<"Total Protein Foods", v["PF_TOTAL"], Rat(25, 10), 5>>,
       <<"Seafood and Plant Proteins", QAdd(v["PF_SEAFD_HI"], v["PF_NUTSDS"]),
         Rat(8, 10), 5>> >>

\* amount per 1000 kcal
Density(measure, v) == QDiv(QMul(measure, Int2Q(1000)), v["KCAL"])

\* the stored Totals row a row of the last result stems from
SourceRow(i) == data[Totals].rows[ret.out.rows[i].src].val

\* the result rows whose Totals row has KCAL > 0
Energetic == {i \in DOMAIN ret.out.rows : QLt(Int2Q(0), SourceRow(i)["KCAL"])}

C23_AdequacyScores ==
    Returned("calculate_hei_2015") =>
        /\ \A i \in Energetic : \A k \in 1..8 :
              LET row == AdequacyTable(SourceRow(i))[k]
                  density == Density(row[2], SourceRow(i))
                  score == ret.out.rows[i].val[row[1]]
              IN  /\ score = Clamp(QMul(QDiv(density, row[3]), Int2Q(row[4])),
                                   Int2Q(0), Int2Q(row[4]))
                  /\ (score = Int2Q(row[4])) <=> QLe(row[3], density)
        /\ \A i, j \in Energetic : \A k \in 1..8 :
              LET name == AdequacyTable(SourceRow(i))[k][1]
                  di == Density(AdequacyTable(SourceRow(i))[k][2], SourceRow(i))
                  dj == Density(AdequacyTable(SourceRow(j))[k][2], SourceRow(j))
              IN  QLe(di, dj) => QLe(ret.out.rows[i].val[name], ret.out.rows[j].val[name])

\* KCAL 2000, F_TOTAL 1.6, F_JUICE 0: Total Fruits 5, Whole Fruits 5, and a
\* vegetable score between the ends; beside it a row above every standard
C23_Witness ==
    /\ Returned("calculate_hei_2015")
    /\ \E i, j \in Energetic :
          /\ SourceRow(i)["KCAL"] = Int2Q(2000) /\ SourceRow(i)["F_TOTAL"] = Rat(16, 10)
          /\ SourceRow(i)["F_JUICE"] = Int2Q(0)
          /\ ret.out.rows[i].val["Total Fruits"] = Int2Q(5)
          /\ ret.out.rows[i].val["Whole Fruits"] = Int2Q(5)
          /\ ret.out.rows[i].val["Total Vegetables"] = Rat(25, 11)
          /\ ret.out.rows[j].val["Total Vegetables"] = Int2Q(5)
          /\ QLt(Rat(11, 10), Density(SourceRow(j)["V_TOTAL"], SourceRow(j)))

-----------------------------------------------------------------------------
(* C24: for every Totals row with KCAL > 0 each moderation score is        *)
(* clamp((worst - x) / (worst - best) * 10, 0, 10): Refined Grains with    *)
(* x = G_REFINED*1000/KCAL between 1.8 and 4.3, Sodium with x = SODI/KCAL  *)
(* between 1.1 and 2.0, Added Sugars with x = ADD_SUGARS*4*100/KCAL        *)
(* between 6.5 and 26, Saturated Fats with x = SFA*9*100/KCAL between 8    *)
(* and 16; each is non-increasing in its measure, exactly 10 at or below   *)
(* the lower threshold and exactly 0 at or above the upper one.            *)

\* (component, x, best, worst) of the moderation components for a stored
\* row v of a table with an SFA column
ModerationTable(v) ==
    << <<"Refined Grains", Density(v["G_REFINED"], v), Rat(18, 10), Rat(43, 10)>>,
       <<"Sodium", QDiv(v["SODI"], v["KCAL"]), Rat(11, 10), Int2Q(2)>>,
       <<"Added Sugars", QDiv(QMul(v["ADD_SUGARS"], Int2Q(400)), v["KCAL"]),
         Rat(65, 10), Int2Q(26)>>,
       <<"Saturated Fats", QDiv(QMul(v["SFA"], Int2Q(900)), v["KCAL"]),
         Int2Q(8), Int2Q(16)>> >>

C24_ModerationScores ==
    /\ Returned("calculate_hei_2015") /\ Totals \in DOMAIN data
    /\ "SFA" \in Range(data[Totals].columns)
    =>
        /\ \A i \in Energetic : \A k \in 1..4 :
              LET row == ModerationTable(SourceRow(i))[k]
                  score == ret.out.rows[i].val[row[1]]
              IN  /\ score = Clamp(QMul(QDiv(QSub(row[4], row[2]), QSub(row[4], row[3])),
                                        Int2Q(10)),
                                   Int2Q(0), Int2Q(10))
                  /\ (score = Int2Q(10)) <=> QLe(row[2], row[3])
                  /\ (score = Int2Q(0)) <=> QLe(row[4], row[2])
        /\ \A i, j \in Energetic : \A k \in 1..4 :
              LET name == ModerationTable(SourceRow(i))[k][1]
                  xi == ModerationTable(SourceRow(i))[k][2]
                  xj == ModerationTable(SourceRow(j))[k][2]
              IN  QLe(xi, xj) => QLe(ret.out.rows[j].val[name], ret.out.rows[i].val[name])

\* sodium at exactly 1.1 g per 1000 kcal scores 10 and saturated fat at 9%
\* of energy scores in between; beside it a row with sodium above 2.0
C24_Witness ==
    /\ Returned("calculate_hei_2015")
    /\ \E i, j \in Energetic :
          /\ QDiv(SourceRow(i)["SODI"], SourceRow(i)["KCAL"]) = Rat(11, 10)
          /\ ret.out.rows[i].val["Sodium"] = Int2Q(10)
          /\ ret.out.rows[i].val["Saturated Fats"] = Rat(35, 4)
          /\ QLt(Int2Q(2), QDiv(SourceRow(j)["SODI"], SourceRow(j)["KCAL"]))
          /\ ret.out.rows[j].val["Sodium"] = Int2Q(0)

-----------------------------------------------------------------------------
(* C25: the Fatty Acids score follows a three-step chain chosen by column  *)
(* presence: with MUFA, PUFA and SFA all present it is                     *)
(* clamp(((MUFA+PUFA)/SFA - 1.2)/(2.5-1.2)*10, 0, 10); otherwise, with     *)
(* M161, M181, P183 and all of S040..S180 present, the same formula on     *)
(* M161+M181+P183 and the sum of the eight S-fields; otherwise 5 for every *)
(* row.  No branch raises for a missing column.  The formula is compared   *)
(* on the rows where the ratio is defined (not 0/0).                       *)

EightSFields == <<"S040", "S060", "S080", "S100", "S120", "S140", "S160", "S180">>

\* the Totals table has every column the scores read apart from the fats
HasNonFatColumns ==
    (HeiMandatory \ {"MUFA", "PUFA", "SFA"}) \cup {"F_JUICE", "V_LEGUMES"}
        \subseteq Range(data[Totals].columns)

HasAll(cols) == Range(cols) \subseteq Range(data[Totals].columns)

\* the step of the chain the columns of the Totals table select
FattyStep ==
    IF HasAll(<<"MUFA", "PUFA", "SFA">>) THEN 1
    ELSE IF HasAll(<<"M161", "M181", "P183">> \o EightSFields) THEN 2
    ELSE 3

\* unsaturated and saturated amounts of the step for a stored row v
FattyAmounts(v) ==
    IF FattyStep = 1 THEN <<QAdd(v["MUFA"], v["PUFA"]), v["SFA"]>>
    ELSE <<PlainSum(v, <<"M161", "M181", "P183">>), PlainSum(v, EightSFields)>>

C25_FattyAcidChain ==
    ret.op = "calculate_hei_2015" /\ Totals \in DOMAIN data /\ HasNonFatColumns =>
        /\ ret.exc # "KeyError"
        /\ ret.exc # "" => ~HasAll(<<"SFA">>) /\ ~HasAll(<<"SFAT">>) /\ ~HasAll(EightSFields)
        /\ ret.exc = "" =>
              \A i \in DOMAIN ret.out.rows :
                  LET score == ret.out.rows[i].val["Fatty Acids"]
                      am == FattyAmounts(SourceRow(i))
                  IN  IF FattyStep = 3 THEN score = Int2Q(5)
                      ELSE am # <<Int2Q(0), Int2Q(0)>> =>
                              score = Clamp(QMul(QDiv(QSub(QDiv(am[1], am[2]), Rat(12, 10)),
                                                      Rat(13, 10)), Int2Q(10)),
                                            Int2Q(0), Int2Q(10))

\* an export without MUFA, PUFA and SFA but with the single fatty acids:
\* the second step scores the row, and not with the default
C25_Witness ==
    /\ Returned("calculate_hei_2015") /\ Totals \in DOMAIN data
    /\ FattyStep = 2
    /\ \E i \in DOMAIN ret.out.rows :
          /\ FattyAmounts(SourceRow(i)) = <<Int2Q(41), Int2Q(24)>>
          /\ ret.out.rows[i].val["Fatty Acids"] = Rat(305, 78)

-----------------------------------------------------------------------------
(* C26: the saturated-fat percentage behind the Saturated Fats score is    *)
(* chosen in strict priority order by column presence: SFA if that column  *)
(* exists; else SFAT if it exists; else the sum of S040..S180 if all eight *)
(* exist; else the constant 12.  In the first three cases the percentage   *)
(* is value*9*100/KCAL, and a column of higher priority, when present, is  *)
(* the one used: the returned score is the moderation score of exactly     *)
(* that percentage.                                                        *)

\* the source the priority order picks, "none" when no source column exists
SatFatSource ==
    IF HasAll(<<"SFA">>) THEN "SFA"
    ELSE IF HasAll(<<"SFAT">>) THEN "SFAT"
    ELSE IF HasAll(EightSFields) THEN "eight"
    ELSE "none"

ExpectedPct(v) ==
    LET value == CASE SatFatSource = "SFA" -> v["SFA"]
                   [] SatFatSource = "SFAT" -> v["SFAT"]
                   [] SatFatSource = "eight" -> PlainSum(v, EightSFields)
    IN  IF SatFatSource = "none" THEN Int2Q(12)
        ELSE QDiv(QMul(value, Int2Q(900)), v["KCAL"])

C26_SatFatPriority ==
    Totals \in DOMAIN data /\ HasNonFatColumns =>
        /\ \A i \in DOMAIN data[Totals].rows :
              LET v == data[Totals].rows[i].val
              IN  QLt(Int2Q(0), v["KCAL"]) => sat_fat_perc(data[Totals], v) = ExpectedPct(v)
        /\ Returned("calculate_hei_2015") =>
              /\ SatFatSource # "none"
              /\ \A i \in DOMAIN ret.out.rows :
                    QLt(Int2Q(0), SourceRow(i)["KCAL"]) =>
                        ret.out.rows[i].val["Saturated Fats"]
                            = Clamp(QMul(QDiv(QSub(Int2Q(16), ExpectedPct(SourceRow(i))),
                                              Int2Q(8)), Int2Q(10)),
                                    Int2Q(0), Int2Q(10))

\* a table with both SFA and SFAT, whose values differ: the score returned is
\* the one of SFA
C26_Witness ==
    /\ Returned("calculate_hei_2015") /\ Totals \in DOMAIN data
    /\ HasAll(<<"SFA", "SFAT">>)
    /\ \E i \in DOMAIN ret.out.rows :
          LET v == SourceRow(i)
          IN  /\ QLt(Int2Q(0), v["KCAL"])
              /\ v["SFA"] # v["SFAT"]
              /\ QLt(Int2Q(0), ret.out.rows[i].val["Saturated Fats"])
              /\ QLt(ret.out.rows[i].val["Saturated Fats"], Int2Q(10))

-----------------------------------------------------------------------------
(* C27: load_data stores each file whose name ends in '.csv' under the     *)
(* category equal to the segment of the file name after the last           *)
(* underscore with the extension removed ('x_y_INS.csv' gives 'INS'), and  *)
(* ignores every file not ending in '.csv': such a file adds no table to   *)
(* analyzer.data and no id to analyzer.subjects.                           *)

\* the category of each file name of the model, written out; "" for the file
\* that is not a .csv
ExpectedCategory(file) ==
    CASE file = <<"a", "_", "T", "o", "t", "a", "l", "s", ".", "c", "s", "v">> -> <<"T", "o", "t", "a", "l", "s">>
      [] file = <<"b", "_", "T", "o", "t", "a", "l", "s", ".", "c", "s", "v">> -> <<"T", "o", "t", "a", "l", "s">>
      [] file = <<"a", "_", "I", "t", "e", "m", "s", ".", "c", "s", "v">> -> <<"I", "t", "e", "m", "s">>
      [] file = <<"x", "_", "y", "_", "I", "N", "S", ".", "c", "s", "v">> -> <<"I", "N", "S">>
      [] file = <<"R", "e", "s", "p", ".", "c", "s", "v">> -> <<"R", "e", "s", "p">>
      [] file = <<"a", "_", "I", "N", "S", ".", "t", "x", "t">> -> <<>>

CsvFiles == {f \in DOMAIN dir : ExpectedCategory(f) # <<>>}

\* the ids of the UserName column of a file's table
IdsOf(f) ==
    IF "UserName" \in Range(dir[f].columns)
    THEN {dir[f].rows[i].val["UserName"] : i \in DOMAIN dir[f].rows}
    ELSE {}

C27_LoadNaming ==
    /\ DOMAIN loaded.data = {ExpectedCategory(f) : f \in CsvFiles}
    /\ \A k \in DOMAIN loaded.data :
          \E f \in CsvFiles : ExpectedCategory(f) = k /\ loaded.data[k] = dir[f]
    /\ loaded.subjects = UNION {IdsOf(f) : f \in CsvFiles}
    /\ ret.op = "__init__" => data = loaded.data /\ subjects = loaded.subjects

\* a directory with x_y_INS.csv and a_INS.txt: the table stored under INS is
\* the one of the .csv file and the id of the .txt file is unknown
C27_Witness ==
    /\ ret.op = "__init__"
    /\ DOMAIN dir = {<<"x", "_", "y", "_", "I", "N", "S", ".", "c", "s", "v">>,
                     <<"a", "_", "I", "N", "S", ".", "t", "x", "t">>}
    /\ DOMAIN data = {<<"I", "N", "S">>}
    /\ Len(data[<<"I", "N", "S">>].rows) > 0
    /\ "u7" \notin subjects
    /\ subjects # {}

-----------------------------------------------------------------------------
(* C28: results are independent of call history: whatever calls to the     *)
(* five projectors and calculate_hei_2015 came before on one loaded        *)
(* analyzer, the value a call returns (table or exception) is the value    *)
(* the same call with the same argument returns when it is the first call  *)
(* on the freshly loaded analyzer; in particular get_detailed_food_items   *)
(* and a repeated get_meal_summary are unaffected by an earlier            *)
(* get_meal_summary.                                                       *)

\* what the call that just returned gives as the first call after loading
FirstCall == Apply(ret.op, loaded.data, ret.arg)

C28_HistoryIndependent ==
    ret.op # "__init__" => ret.exc = FirstCall.exc /\ ret.out = FirstCall.out

\* get_detailed_food_items returns rows after an earlier get_meal_summary
\* has left its Meal column in the stored Items table
C28_Witness ==
    /\ Returned("get_detailed_food_items")
    /\ Len(ret.out.rows) > 0
    /\ Items \in DOMAIN data
    /\ "Meal" \in Range(data[Items].columns)
    /\ "Meal" \notin Range(loaded.data[Items].columns)

-----------------------------------------------------------------------------
(* C29: the loaded state is a function of the directory's files and their  *)
(* contents only: for any directory, one with a_Totals.csv and             *)
(* b_Totals.csv included, two loads that enumerate the files in different  *)
(* orders produce the same analyzer.data and the same analyzer.subjects.   *)
C29_OrderIndependent ==
    \A order \in Perms(DOMAIN dir) :
        /\ Construct(dir, order).data = loaded.data
        /\ Construct(dir, order).subjects = loaded.subjects

-----------------------------------------------------------------------------
(* C21: in both applications' main(), when the selected-subject list is    *)
(* empty the run stops with a warning before any page is rendered: no      *)
(* projector and no calculate_hei_2015 call is made with an empty          *)
(* selection, so every call the UI makes carries a non-empty allowlist.    *)

\* the run is past the check of the selection
PastGuard == ui.pc \in {"navigate", "rendered"} \/ ui.shown = "warning"

\* the analyzer has been called by a page
PageCalled ==
    ret.op \in {"get_nutrient_summary", "get_food_groups_summary", "get_supplement_summary",
                "get_meal_summary", "get_detailed_food_items", "calculate_hei_2015"}

C21_EmptySelectionStops ==
    /\ (PastGuard /\ ui.selected = <<>>) =>
           (ui.pc = "stopped" /\ ui.shown = "warning" /\ ui.page = "" /\ ~PageCalled)
    /\ (ui.page # "") => (ui.selected # <<>>)
    /\ PageCalled => (Allowlist(ret.arg) /\ ret.arg.ids = ui.selected)

\* the analyzer knows subjects, the user has deselected all of them, and the
\* run has stopped with the warning
C21_Witness ==
    /\ ui.pc = "stopped" /\ ui.shown = "warning"
    /\ subjects # {} /\ ui.selected = <<>>
    /\ ret.op = "__init__"

-----------------------------------------------------------------------------
(* C30: in the src/src/asa24_analyzer.py application calculate_hei_2015 is *)
(* an operation of ASA24Analyzer: the 'Healthy Eating Index' page, with at *)
(* least one selected subject and a well-formed Totals table loaded, calls *)
(* analyzer.calculate_hei_2015(selected_subjects) and obtains the HEI      *)
(* score table, as the same page does in src/streamlit_app.py, rather than *)
(* ending in an error.                                                     *)
C30_HeiPageGivesTable ==
    ( /\ ui.pc = "rendered"
      /\ ui.page = "Healthy Eating Index"
      /\ ui.selected # <<>>
      /\ Totals \in DOMAIN data ) =>
        ( /\ ret.op = "calculate_hei_2015"
          /\ ret.arg.ids = ui.selected
          /\ ret.exc = ""
          /\ ui.shown = "table"
          /\ "Total HEI Score" \in Range(ret.out.columns) )

====
